---- MODULE Spec2Model ----
(***************************************************************************)
(* A model of the NRBF codec of src/nrbf-cli.ts: the BinaryReader and      *)
(* BinaryWriter over byte buffers, the record classes, NrbfDecoder,        *)
(* NrbfEncoder and the path helpers of NrbfUtils.                          *)
(*                                                                         *)
(* Bytes are the integers 0..255 and a buffer is a sequence of bytes.      *)
(* JavaScript values are tagged records [t, v]:                            *)
(*   "undef"  undefined            "null"  null                            *)
(*   "bool"   a boolean            "num"   a number (an Int32 here)        *)
(*   "str"    a string, as the sequence of its char codes                  *)
(*   "wide"   a number or string read from a fixed-width field the model   *)
(*            keeps as its source bytes (Int64, Double, Decimal, ...)      *)
(*   "obj"    a reference to an object of the heap (v is its address)      *)
(*   "ref" "nullrec" "nullmulti" "nullmulti256" "end" "mpt" "lib" "hdr"    *)
(*            the records that carry no object id and are never mutated    *)
(* The records that carry an object id (ClassRecord, the four array        *)
(* records, BinaryObjectStringRecord) live in a heap, so that a record     *)
(* reached through the record table and through its parent is one object.  *)
(***************************************************************************)
EXTENDS Integers, Sequences, FiniteSets, TLC

(* ------------------------------------------------------------------ *)
(* enum RecordType                                                      *)
RT_SerializedStreamHeader == 0
RT_ClassWithId == 1
RT_SystemClassWithMembers == 2
RT_ClassWithMembers == 3
RT_SystemClassWithMembersAndTypes == 4
RT_ClassWithMembersAndTypes == 5
RT_BinaryObjectString == 6
RT_BinaryArray == 7
RT_MemberPrimitiveTyped == 8
RT_MemberReference == 9
RT_ObjectNull == 10
RT_MessageEnd == 11
RT_BinaryLibrary == 12
RT_ObjectNullMultiple256 == 13
RT_ObjectNullMultiple == 14
RT_ArraySinglePrimitive == 15
RT_ArraySingleObject == 16
RT_ArraySingleString == 17

(* enum BinaryType                                                      *)
BT_Primitive == 0
BT_String == 1
BT_Object == 2
BT_SystemClass == 3
BT_Class == 4
BT_ObjectArray == 5
BT_StringArray == 6
BT_PrimitiveArray == 7

(* enum PrimitiveType                                                   *)
PT_Boolean == 1
PT_Byte == 2
PT_Char == 3
PT_Decimal == 5
PT_Double == 6
PT_Int16 == 7
PT_Int32 == 8
PT_Int64 == 9
PT_SByte == 10
PT_Single == 11
PT_TimeSpan == 12
PT_DateTime == 13
PT_UInt16 == 14
PT_UInt32 == 15
PT_UInt64 == 16
PT_Null == 17
PT_String == 18

(* enum BinaryArrayType                                                 *)
BAT_SingleOffset == 3
BAT_JaggedOffset == 4
BAT_RectangularOffset == 5

(* ------------------------------------------------------------------ *)
(* JavaScript values                                                    *)
Undefined == [t |-> "undef", v |-> 0]
Null == [t |-> "null", v |-> 0]
Bool(b) == [t |-> "bool", v |-> b]
Num(n) == [t |-> "num", v |-> n]
Str(s) == [t |-> "str", v |-> s]
Wide(kind, bytes) == [t |-> "wide", v |-> <<kind, bytes>>]
Obj(a) == [t |-> "obj", v |-> a]

(* the records without an object id                                     *)
MemberReferenceRecord(idRef) == [t |-> "ref", v |-> idRef]
ObjectNullRecord == [t |-> "nullrec", v |-> 0]
ObjectNullMultipleRecord(n) == [t |-> "nullmulti", v |-> n]
ObjectNullMultiple256Record(n) == [t |-> "nullmulti256", v |-> n]
MessageEndRecord == [t |-> "end", v |-> 0]
MemberPrimitiveTypedRecord(pt, val) == [t |-> "mpt", v |-> <<pt, val>>]
BinaryLibrary(id, name) == [t |-> "lib", v |-> <<id, name>>]
SerializationHeader(rootId, headerId, major, minor) ==
    [t |-> "hdr", v |-> <<rootId, headerId, major, minor>>]

(* value instanceof NrbfRecord                                          *)
IsRecord(x) == x.t \in {"obj", "ref", "nullrec", "nullmulti", "nullmulti256",
                        "end", "mpt", "lib", "hdr"}

(* ------------------------------------------------------------------ *)
(* little-endian integers                                               *)
Pow256(i) == CASE i = 0 -> 1 [] i = 1 -> 256 [] i = 2 -> 65536 [] OTHER -> 16777216

(* DataView.getInt32(offset, true) on the four bytes b               *)
ToInt32(b) ==
    b[1] + 256 * b[2] + 65536 * b[3]
      + 16777216 * (IF b[4] >= 128 THEN b[4] - 256 ELSE b[4])

(* DataView.getInt16 / getUint16 / getInt8                              *)
ToInt16(b) == b[1] + 256 * (IF b[2] >= 128 THEN b[2] - 256 ELSE b[2])
ToUInt16(b) == b[1] + 256 * b[2]
ToInt8(b) == IF b >= 128 THEN b - 256 ELSE b

(* DataView.setInt32(0, n, true): the two's complement bytes of n       *)
Int32Bytes(n) == [i \in 1..4 |-> (n \div Pow256(i - 1)) % 256]
Int16Bytes(n) == [i \in 1..2 |-> (n \div Pow256(i - 1)) % 256]

(* ------------------------------------------------------------------ *)
(* UTF-8, as TextDecoder('utf-8') and TextEncoder do it, for code       *)
(* points below 0x10000: a byte that starts no well-formed sequence     *)
(* decodes to U+FFFD, and a leading byte order mark is dropped.         *)
ReplacementChar == 65533

IsCont(b) == b >= 128 /\ b < 192

RECURSIVE Utf8DecodeFrom(_, _)
Utf8DecodeFrom(bytes, i) ==
    IF i > Len(bytes) THEN <<>>
    ELSE LET b == bytes[i] IN
      IF b < 128 THEN <<b>> \o Utf8DecodeFrom(bytes, i + 1)
      ELSE IF b >= 194 /\ b < 224 /\ i + 1 <= Len(bytes) /\ IsCont(bytes[i + 1])
        THEN <<(b - 192) * 64 + (bytes[i + 1] - 128)>> \o Utf8DecodeFrom(bytes, i + 2)
      ELSE IF b >= 224 /\ b < 240 /\ i + 2 <= Len(bytes)
              /\ IsCont(bytes[i + 1]) /\ IsCont(bytes[i + 2])
              /\ (b = 224 => bytes[i + 1] >= 160)
              /\ (b = 237 => bytes[i + 1] < 160)
        THEN <<(b - 224) * 4096 + (bytes[i + 1] - 128) * 64 + (bytes[i + 2] - 128)>>
               \o Utf8DecodeFrom(bytes, i + 3)
      ELSE <<ReplacementChar>> \o Utf8DecodeFrom(bytes, i + 1)

TextDecode(bytes) ==
    LET s == Utf8DecodeFrom(bytes, 1)
    IN IF Len(s) >= 1 /\ s[1] = 65279 THEN Tail(s) ELSE s

RECURSIVE TextEncode(_)
TextEncode(s) ==
    IF s = <<>> THEN <<>>
    ELSE LET c == Head(s) IN
      (IF c < 128 THEN <<c>>
       ELSE IF c < 2048 THEN <<192 + (c \div 64), 128 + (c % 64)>>
       ELSE <<224 + (c \div 4096), 128 + ((c \div 64) % 64), 128 + (c % 64)>>)
      \o TextEncode(Tail(s))

(* ------------------------------------------------------------------ *)
(* class BinaryReader.  A decoder state d carries the buffer, the       *)
(* reader's offset, whether an exception was thrown (ok, err), the      *)
(* heap, the three maps of NrbfDecoder, the trace of map operations     *)
(* and record tags read, and ret, the value the last call returned.     *)
(* A thrown exception unwinds every caller up to decode's: the          *)
(* statements after a call run only when the call returned.             *)
Then(r, K(_)) == IF r.ok THEN K(r) ELSE r

Throw(d, msg) == [d EXCEPT !.ok = FALSE, !.err = msg]
Return(d, val) == [d EXCEPT !.ret = val]

readByte(d) ==
    IF d.offset >= Len(d.buf)
      THEN Throw([d EXCEPT !.offset = d.offset + 1], "RangeError")
      ELSE [d EXCEPT !.offset = d.offset + 1, !.ret = d.buf[d.offset + 1]]

(* the n bytes at the offset, as DataView's multi-byte getters read them *)
readBytes(d, n) ==
    IF n > Len(d.buf) - d.offset THEN Throw(d, "RangeError")
    ELSE [d EXCEPT !.offset = d.offset + n,
                   !.ret = SubSeq(d.buf, d.offset + 1, d.offset + n)]

readSByte(d) == Then(readByte(d), LAMBDA r : Return(r, ToInt8(r.ret)))
readInt16(d) == Then(readBytes(d, 2), LAMBDA r : Return(r, ToInt16(r.ret)))
readUInt16(d) == Then(readBytes(d, 2), LAMBDA r : Return(r, ToUInt16(r.ret)))
readInt32(d) == Then(readBytes(d, 4), LAMBDA r : Return(r, ToInt32(r.ret)))
readBoolean(d) == Then(readByte(d), LAMBDA r : Return(r, r.ret # 0))
readChar(d) == Then(readByte(d), LAMBDA r : Return(r, <<r.ret>>))

(* the shifted bits, were the continuation bit not masked off          *)
ShiftedBitsUnmasked(b, shift) ==
    CASE shift = 0 -> b
      [] shift = 7 -> b * 128
      [] shift = 14 -> b * 16384
      [] shift = 21 -> b * 2097152
      [] OTHER -> (IF b % 16 >= 8 THEN (b % 16) - 16 ELSE b % 16) * 268435456

(* value |= (b & 0x7F) << shift, in JavaScript's 32-bit arithmetic: for  *)
(* shift = 28 only the low four bits of b survive and bit 3 is the sign; *)
(* the bits lie above those of value, so that | is a sum                *)
ShiftedBits(b, shift) ==
    CASE shift = 0 -> b % 128
      [] shift = 7 -> (b % 128) * 128
      [] shift = 14 -> (b % 128) * 16384
      [] shift = 21 -> (b % 128) * 2097152
      [] OTHER -> (IF b % 16 >= 8 THEN (b % 16) - 16 ELSE b % 16) * 268435456

MaxVarIntShift == 35

RECURSIVE readVarIntLoop(_, _, _)
readVarIntLoop(d, value, shift) ==
    IF ~(shift < MaxVarIntShift) THEN Throw(d, "Variable length int too long")
    ELSE Then(readByte(d), LAMBDA r :
           IF r.ret < 128 THEN Return(r, value + ShiftedBits(r.ret, shift))
           ELSE readVarIntLoop(r, value + ShiftedBits(r.ret, shift), shift + 7))

readVariableLengthInt(d) == readVarIntLoop(d, 0, 0)

readLengthPrefixedString(d) ==
    Then(readVariableLengthInt(d), LAMBDA r :
      IF r.ret = 0 THEN Return(r, <<>>)
      ELSE IF r.ret < 0 THEN Throw(r, "Invalid string length")
      ELSE IF r.ret > Len(r.buf) - r.offset THEN Throw(r, "RangeError")
      ELSE [r EXCEPT !.offset = r.offset + r.ret,
                     !.ret = TextDecode(SubSeq(r.buf, r.offset + 1, r.offset + r.ret))])
(* ------------------------------------------------------------------ *)
(* the trace of a decode: the tags decodeNext read, the records the     *)
(* main loop started, and the operations on recordMap and metadataMap   *)
EvTop(pos) == [ev |-> "top", id |-> 0, x |-> pos]
EvRead(tag, pos) == [ev |-> "read", id |-> tag, x |-> pos]
EvRecordSet(id, addr) == [ev |-> "record", id |-> id, x |-> addr]
EvMetaSet(id) == [ev |-> "meta", id |-> id, x |-> 0]
EvMetaGet(id, found) == [ev |-> "lookup", id |-> id, x |-> IF found THEN 1 ELSE 0]
EvValues(id, addr) == [ev |-> "values", id |-> id, x |-> addr]

Log(d, e) == [d EXCEPT !.trace = Append(d.trace, e)]

(* new NrbfDecoder(buffer)                                              *)
NewDecoder(buffer) ==
    [buf |-> buffer, offset |-> 0, ok |-> TRUE, err |-> "", heap |-> <<>>,
     recordMap |-> <<>>, metadataMap |-> <<>>, libraryMap |-> <<>>,
     trace |-> <<>>, header |-> Undefined, ret |-> Undefined]

(* Map.set and Map.get on a map kept as a function                      *)
MapSet(m, key, val) == (key :> val) @@ m
MapHas(m, key) == key \in DOMAIN m

(* new X(...): the object is appended to the heap; ret is its address   *)
Alloc(d, node) == [d EXCEPT !.heap = Append(d.heap, node), !.ret = Len(d.heap) + 1]

recordMapSet(d, id, addr) ==
    Log([d EXCEPT !.recordMap = MapSet(d.recordMap, id, addr)], EvRecordSet(id, addr))

metadataMapSet(d, id, meta) ==
    Log([d EXCEPT !.metadataMap = MapSet(d.metadataMap, id, meta)], EvMetaSet(id))

(* record.memberValues.set(memberName, value)                           *)
memberValuesSet(d, addr, name, val) ==
    [d EXCEPT !.heap[addr].memberValues = MapSet(@, name, val)]

(* ------------------------------------------------------------------ *)
(* class ClassRecord and the other records of the heap                  *)
ClassRecord(classInfo, memberTypeInfo, libraryId, recordTypeValue) ==
    [k |-> "class", classInfo |-> classInfo, memberTypeInfo |-> memberTypeInfo,
     libraryId |-> libraryId, recordTypeValue |-> recordTypeValue,
     memberValues |-> <<>>]

BinaryArrayRecord(id, arrayType, rank, lengths, lowerBounds, typeEnum, info, elems) ==
    [k |-> "barray", arrayObjectId |-> id, binaryArrayTypeEnum |-> arrayType,
     rank |-> rank, lengths |-> lengths, lowerBounds |-> lowerBounds,
     typeEnum |-> typeEnum, additionalTypeInfo |-> info, elementValues |-> elems]

ArraySinglePrimitiveRecord(id, length, pt, elems) ==
    [k |-> "aprim", arrayObjectId |-> id, length |-> length,
     primitiveTypeEnum |-> pt, elementValues |-> elems]

ArraySingleObjectRecord(id, length, elems) ==
    [k |-> "aobj", arrayObjectId |-> id, length |-> length, elementValues |-> elems]

ArraySingleStringRecord(id, length, elems) ==
    [k |-> "astr", arrayObjectId |-> id, length |-> length, elementValues |-> elems]

BinaryObjectStringRecord(id, value) ==
    [k |-> "string", stringObjectId |-> id, value |-> value]

(* get objectId() of a heap record                                      *)
NodeObjectId(node) ==
    CASE node.k = "class" -> node.classInfo.objectId
      [] node.k = "string" -> node.stringObjectId
      [] OTHER -> node.arrayObjectId

(* get objectId() of any record: a number, or null                      *)
ObjectIdOf(heap, x) ==
    CASE x.t = "obj" -> Num(NodeObjectId(heap[x.v]))
      [] x.t = "lib" -> Num(x.v[1])
      [] OTHER -> Null

(* get recordType() of any record                                       *)
RecordTypeOf(heap, x) ==
    CASE x.t = "obj" ->
           (CASE heap[x.v].k = "class" -> heap[x.v].recordTypeValue
              [] heap[x.v].k = "string" -> RT_BinaryObjectString
              [] heap[x.v].k = "barray" -> RT_BinaryArray
              [] heap[x.v].k = "aprim" -> RT_ArraySinglePrimitive
              [] heap[x.v].k = "aobj" -> RT_ArraySingleObject
              [] OTHER -> RT_ArraySingleString)
      [] x.t = "ref" -> RT_MemberReference
      [] x.t = "nullrec" -> RT_ObjectNull
      [] x.t = "nullmulti" -> RT_ObjectNullMultiple
      [] x.t = "nullmulti256" -> RT_ObjectNullMultiple256
      [] x.t = "end" -> RT_MessageEnd
      [] x.t = "mpt" -> RT_MemberPrimitiveTyped
      [] x.t = "lib" -> RT_BinaryLibrary
      [] OTHER -> RT_SerializedStreamHeader

(* AdditionalTypeInfo                                                   *)
InfoPrimitive(pt) == [type |-> "Primitive", primitiveType |-> pt]
InfoSystemClass(name) == [type |-> "SystemClass", className |-> name]
InfoClass(name, lib) == [type |-> "Class", className |-> name, libraryId |-> lib]
InfoNone == [type |-> "None"]

(* MemberTypeInfo | null                                                *)
MemberTypeInfo(bts, infos) ==
    [t |-> "mti", v |-> [binaryTypeEnums |-> bts, additionalInfos |-> infos]]

(* ------------------------------------------------------------------ *)
(* class NrbfDecoder                                                    *)
MaxRecordCount == 100000

RECURSIVE decodeNext(_)
RECURSIVE readUntypedMembers(_, _, _, _)
RECURSIVE readMemberValuesFrom(_, _, _, _, _)
RECURSIVE readAllElementsFrom(_, _, _, _, _, _)

readPrimitiveValue(d, primitiveType) ==
    CASE primitiveType = PT_Boolean ->
           Then(readBoolean(d), LAMBDA r : Return(r, Bool(r.ret)))
      [] primitiveType = PT_Byte -> Then(readByte(d), LAMBDA r : Return(r, Num(r.ret)))
      [] primitiveType = PT_SByte -> Then(readSByte(d), LAMBDA r : Return(r, Num(r.ret)))
      [] primitiveType = PT_Char -> Then(readChar(d), LAMBDA r : Return(r, Str(r.ret)))
      [] primitiveType = PT_Int16 -> Then(readInt16(d), LAMBDA r : Return(r, Num(r.ret)))
      [] primitiveType = PT_UInt16 -> Then(readUInt16(d), LAMBDA r : Return(r, Num(r.ret)))
      [] primitiveType = PT_Int32 -> Then(readInt32(d), LAMBDA r : Return(r, Num(r.ret)))
      [] primitiveType \in {PT_UInt32, PT_Single} ->
           Then(readBytes(d, 4), LAMBDA r : Return(r, Wide(primitiveType, r.ret)))
      [] primitiveType \in {PT_Int64, PT_UInt64, PT_Double, PT_DateTime, PT_TimeSpan} ->
           Then(readBytes(d, 8), LAMBDA r : Return(r, Wide(primitiveType, r.ret)))
      [] primitiveType = PT_Decimal ->
           Then(readBytes(d, 16), LAMBDA r : Return(r, Wide(primitiveType, r.ret)))
      [] primitiveType = PT_String ->
           Then(readLengthPrefixedString(d), LAMBDA r : Return(r, Str(r.ret)))
      [] primitiveType = PT_Null -> Return(d, Null)
      [] OTHER -> Throw(d, "Unsupported primitive type")

readObjectValue(d, binaryType, additionalInfo) ==
    IF binaryType = BT_Primitive /\ additionalInfo.type = "Primitive"
      THEN readPrimitiveValue(d, additionalInfo.primitiveType)
      ELSE decodeNext(d)

decodeSerializationHeader(d) ==
    Then(readInt32(d), LAMBDA d1 :
    Then(readInt32(d1), LAMBDA d2 :
    Then(readInt32(d2), LAMBDA d3 :
    Then(readInt32(d3), LAMBDA d4 :
      Return(d4, SerializationHeader(d1.ret, d2.ret, d3.ret, d4.ret))))))

decodeBinaryLibrary(d) ==
    Then(readInt32(d), LAMBDA d1 :
    Then(readLengthPrefixedString(d1), LAMBDA d2 :
      [d2 EXCEPT !.libraryMap = MapSet(d2.libraryMap, d1.ret, d2.ret),
                 !.ret = BinaryLibrary(d1.ret, d2.ret)]))

RECURSIVE readStrings(_, _, _)
readStrings(d, n, acc) ==
    IF ~(Len(acc) < n) THEN Return(d, acc)
    ELSE Then(readLengthPrefixedString(d), LAMBDA r : readStrings(r, n, Append(acc, r.ret)))

readClassInfo(d) ==
    Then(readInt32(d), LAMBDA d1 :
    Then(readLengthPrefixedString(d1), LAMBDA d2 :
    Then(readInt32(d2), LAMBDA d3 :
    Then(readStrings(d3, d3.ret, <<>>), LAMBDA d4 :
      Return(d4, [objectId |-> d1.ret, name |-> d2.ret,
                  memberCount |-> d3.ret, memberNames |-> d4.ret])))))

readAdditionalTypeInfo(d, binaryType) ==
    CASE binaryType = BT_Primitive ->
           Then(readByte(d), LAMBDA r : Return(r, InfoPrimitive(r.ret)))
      [] binaryType = BT_SystemClass ->
           Then(readLengthPrefixedString(d), LAMBDA r : Return(r, InfoSystemClass(r.ret)))
      [] binaryType = BT_Class ->
           Then(readLengthPrefixedString(d), LAMBDA r1 :
           Then(readInt32(r1), LAMBDA r2 : Return(r2, InfoClass(r1.ret, r2.ret))))
      [] OTHER -> Return(d, InfoNone)

RECURSIVE readBinaryTypes(_, _, _)
readBinaryTypes(d, n, acc) ==
    IF ~(Len(acc) < n) THEN Return(d, acc)
    ELSE Then(readByte(d), LAMBDA r : readBinaryTypes(r, n, Append(acc, r.ret)))

RECURSIVE readAdditionalInfos(_, _, _, _)
readAdditionalInfos(d, n, bts, acc) ==
    IF ~(Len(acc) < n) THEN Return(d, acc)
    ELSE Then(readAdditionalTypeInfo(d, bts[Len(acc) + 1]),
              LAMBDA r : readAdditionalInfos(r, n, bts, Append(acc, r.ret)))

readMemberTypeInfo(d, memberCount) ==
    Then(readBinaryTypes(d, memberCount, <<>>), LAMBDA d1 :
    Then(readAdditionalInfos(d1, memberCount, d1.ret, <<>>), LAMBDA d2 :
      Return(d2, MemberTypeInfo(d1.ret, d2.ret))))

(* for (const memberName of classInfo.memberNames) { decodeNext(); set }  *)
readUntypedMembers(d, addr, memberNames, i) ==
    IF i > Len(memberNames) THEN d
    ELSE Then(decodeNext(d), LAMBDA r :
           readUntypedMembers(memberValuesSet(r, addr, memberNames[i], r.ret),
                              addr, memberNames, i + 1))

readMemberValuesFrom(d, addr, memberNames, memberTypeInfo, i) ==
    IF i > Len(memberNames) THEN d
    ELSE Then(readObjectValue(d, memberTypeInfo.binaryTypeEnums[i],
                              memberTypeInfo.additionalInfos[i]),
              LAMBDA r :
                readMemberValuesFrom(memberValuesSet(r, addr, memberNames[i], r.ret),
                                     addr, memberNames, memberTypeInfo, i + 1))

readMemberValues(d, addr, memberNames, memberTypeInfo) ==
    readMemberValuesFrom(d, addr, memberNames, memberTypeInfo, 1)

(* the four decoders of a full class record: ClassInfo, the member      *)
(* types when typed, the library id when withLibrary; the metadata and  *)
(* the record are registered, then the member values are read           *)
decodeFullClass(d, recordType, typed, withLibrary) ==
    Then(readClassInfo(d), LAMBDA d1 :
    Then(IF typed THEN readMemberTypeInfo(d1, d1.ret.memberCount) ELSE Return(d1, Null),
         LAMBDA d2 :
    Then(IF withLibrary THEN Then(readInt32(d2), LAMBDA r : Return(r, Num(r.ret)))
                        ELSE Return(d2, Null),
         LAMBDA d3 :
    Then(Alloc(d3, ClassRecord(d1.ret, d2.ret, d3.ret, recordType)), LAMBDA d4 :
    Then(Log(recordMapSet(metadataMapSet(d4, d1.ret.objectId,
                                         [classInfo |-> d1.ret, memberTypeInfo |-> d2.ret,
                                          libraryId |-> d3.ret]),
                          d1.ret.objectId, d4.ret),
             EvValues(d1.ret.objectId, d4.ret)),
         LAMBDA d5 :
    Then(IF typed THEN readMemberValues(d5, d4.ret, d1.ret.memberNames, d2.ret.v)
                  ELSE readUntypedMembers(d5, d4.ret, d1.ret.memberNames, 1),
         LAMBDA d6 : Return(d6, Obj(d4.ret))))))))

decodeClassWithMembersAndTypes(d) ==
    decodeFullClass(d, RT_ClassWithMembersAndTypes, TRUE, TRUE)

decodeSystemClassWithMembersAndTypes(d) ==
    decodeFullClass(d, RT_SystemClassWithMembersAndTypes, TRUE, FALSE)

decodeSystemClassWithMembers(d) ==
    decodeFullClass(d, RT_SystemClassWithMembers, FALSE, FALSE)

decodeClassWithMembers(d) ==
    decodeFullClass(d, RT_ClassWithMembers, FALSE, TRUE)

(* the ClassInfo of a ClassWithId record: the metadata's, with objectId  *)
ClassInfoWithId(objectId, metadata) ==
    [objectId |-> objectId, name |-> metadata.classInfo.name,
     memberCount |-> metadata.classInfo.memberCount,
     memberNames |-> metadata.classInfo.memberNames]

(* decodeClassWithId, were it to enter the new record's object id in    *)
(* the metadata table as the decoders of the full class records do      *)
decodeClassWithMetadataRegistered(d, objectId, metadata) ==
    Then(Alloc(d, ClassRecord(ClassInfoWithId(objectId, metadata), metadata.memberTypeInfo,
                              metadata.libraryId, RT_ClassWithId)),
         LAMBDA d4 :
    Then(Log(recordMapSet(metadataMapSet(d4, objectId, metadata), objectId, d4.ret),
             EvValues(objectId, d4.ret)),
         LAMBDA d5 :
    Then(IF metadata.memberTypeInfo.t # "null"
           THEN readMemberValues(d5, d4.ret, metadata.classInfo.memberNames,
                                 metadata.memberTypeInfo.v)
           ELSE readUntypedMembers(d5, d4.ret, metadata.classInfo.memberNames, 1),
         LAMBDA d6 : Return(d6, Obj(d4.ret)))))

(* decodeClassWithId once the metadata was found                        *)
decodeClassWithMetadata(d, objectId, metadata) ==
    Then(Alloc(d, ClassRecord(ClassInfoWithId(objectId, metadata), metadata.memberTypeInfo,
                              metadata.libraryId, RT_ClassWithId)),
         LAMBDA d4 :
    Then(Log(recordMapSet(d4, objectId, d4.ret), EvValues(objectId, d4.ret)), LAMBDA d5 :
    Then(IF metadata.memberTypeInfo.t # "null"
           THEN readMemberValues(d5, d4.ret, metadata.classInfo.memberNames,
                                 metadata.memberTypeInfo.v)
           ELSE readUntypedMembers(d5, d4.ret, metadata.classInfo.memberNames, 1),
         LAMBDA d6 : Return(d6, Obj(d4.ret)))))

decodeClassWithId(d) ==
    Then(readInt32(d), LAMBDA d1 :
    Then(readInt32(d1), LAMBDA d2 :
      IF ~MapHas(d2.metadataMap, d2.ret)
        THEN Throw(Log(d2, EvMetaGet(d2.ret, FALSE)), "Metadata not found")
        ELSE decodeClassWithMetadata(Log(d2, EvMetaGet(d2.ret, TRUE)), d1.ret,
                                     d2.metadataMap[d2.ret])))

decodeBinaryObjectString(d) ==
    Then(readInt32(d), LAMBDA d1 :
    Then(readLengthPrefixedString(d1), LAMBDA d2 :
    Then(Alloc(d2, BinaryObjectStringRecord(d1.ret, d2.ret)), LAMBDA d3 :
      Return(recordMapSet(d3, d1.ret, d3.ret), Obj(d3.ret)))))

RECURSIVE readInt32s(_, _, _)
readInt32s(d, n, acc) ==
    IF ~(Len(acc) < n) THEN Return(d, acc)
    ELSE Then(readInt32(d), LAMBDA r : readInt32s(r, n, Append(acc, r.ret)))

(* lengths.reduce((a, b) => a * b, 1)                                   *)
RECURSIVE Product(_)
Product(lengths) ==
    IF lengths = <<>> THEN 1 ELSE Head(lengths) * Product(Tail(lengths))

Nulls(n) == [j \in 1..n |-> Null]

(* one turn of the while (i < count) loop on the value just read        *)
pushElement(d, count, binaryType, additionalInfo, i, elements, val) ==
    IF val.t = "nullmulti" \/ val.t = "nullmulti256"
      THEN readAllElementsFrom(d, count, binaryType, additionalInfo,
                               i + val.v, elements \o Nulls(val.v))
    ELSE IF val.t = "nullrec"
      THEN readAllElementsFrom(d, count, binaryType, additionalInfo,
                               i + 1, Append(elements, Null))
    ELSE readAllElementsFrom(d, count, binaryType, additionalInfo,
                             i + 1, Append(elements, val))

readAllElementsFrom(d, count, binaryType, additionalInfo, i, elements) ==
    IF ~(i < count) THEN Return(d, elements)
    ELSE Then(readObjectValue(d, binaryType, additionalInfo), LAMBDA r :
           pushElement(r, count, binaryType, additionalInfo, i, elements, r.ret))

readAllElements(d, count, binaryType, additionalInfo) ==
    readAllElementsFrom(d, count, binaryType, additionalInfo, 0, <<>>)

HasLowerBounds(arrayType) ==
    arrayType \in {BAT_SingleOffset, BAT_JaggedOffset, BAT_RectangularOffset}

decodeBinaryArray(d) ==
    Then(readInt32(d), LAMBDA d1 :
    Then(readByte(d1), LAMBDA d2 :
    Then(readInt32(d2), LAMBDA d3 :
    Then(readInt32s(d3, d3.ret, <<>>), LAMBDA d4 :
    Then(IF HasLowerBounds(d2.ret)
           THEN Then(readInt32s(d4, d3.ret, <<>>),
                     LAMBDA r : Return(r, [t |-> "arr", v |-> r.ret]))
           ELSE Return(d4, Null),
         LAMBDA d5 :
    Then(readByte(d5), LAMBDA d6 :
    Then(readAdditionalTypeInfo(d6, d6.ret), LAMBDA d7 :
    Then(readAllElements(d7, Product(d4.ret), d6.ret, d7.ret), LAMBDA d8 :
    Then(Alloc(d8, BinaryArrayRecord(d1.ret, d2.ret, d3.ret, d4.ret, d5.ret, d6.ret,
                                     d7.ret, d8.ret)),
         LAMBDA d9 : Return(recordMapSet(d9, d1.ret, d9.ret), Obj(d9.ret)))))))))))

RECURSIVE readPrimitives(_, _, _, _)
readPrimitives(d, n, primitiveType, acc) ==
    IF ~(Len(acc) < n) THEN Return(d, acc)
    ELSE Then(readPrimitiveValue(d, primitiveType),
              LAMBDA r : readPrimitives(r, n, primitiveType, Append(acc, r.ret)))

decodeArraySinglePrimitive(d) ==
    Then(readInt32(d), LAMBDA d1 :
    Then(readInt32(d1), LAMBDA d2 :
    Then(readByte(d2), LAMBDA d3 :
    Then(readPrimitives(d3, d2.ret, d3.ret, <<>>), LAMBDA d4 :
    Then(Alloc(d4, ArraySinglePrimitiveRecord(d1.ret, d2.ret, d3.ret, d4.ret)),
         LAMBDA d5 : Return(recordMapSet(d5, d1.ret, d5.ret), Obj(d5.ret)))))))

decodeArraySingleObject(d) ==
    Then(readInt32(d), LAMBDA d1 :
    Then(readInt32(d1), LAMBDA d2 :
    Then(readAllElements(d2, d2.ret, BT_Object, InfoNone), LAMBDA d3 :
    Then(Alloc(d3, ArraySingleObjectRecord(d1.ret, d2.ret, d3.ret)),
         LAMBDA d4 : Return(recordMapSet(d4, d1.ret, d4.ret), Obj(d4.ret))))))

decodeArraySingleString(d) ==
    Then(readInt32(d), LAMBDA d1 :
    Then(readInt32(d1), LAMBDA d2 :
    Then(readAllElements(d2, d2.ret, BT_String, InfoNone), LAMBDA d3 :
    Then(Alloc(d3, ArraySingleStringRecord(d1.ret, d2.ret, d3.ret)),
         LAMBDA d4 : Return(recordMapSet(d4, d1.ret, d4.ret), Obj(d4.ret))))))

decodeMemberPrimitiveTyped(d) ==
    Then(readByte(d), LAMBDA d1 :
    Then(readPrimitiveValue(d1, d1.ret), LAMBDA d2 :
      Return(d2, MemberPrimitiveTypedRecord(d1.ret, d2.ret))))

(* decodeMemberReference, were it to look the target up at once        *)
decodeMemberReferenceChecked(d) ==
    Then(readInt32(d), LAMBDA r :
      IF ~MapHas(r.recordMap, r.ret) THEN Throw(r, "Cannot resolve reference")
      ELSE Return(r, MemberReferenceRecord(r.ret)))

decodeMemberReference(d) ==
    Then(readInt32(d), LAMBDA r : Return(r, MemberReferenceRecord(r.ret)))

decodeObjectNullMultiple(d) ==
    Then(readInt32(d), LAMBDA r : Return(r, ObjectNullMultipleRecord(r.ret)))

decodeObjectNullMultiple256(d) ==
    Then(readByte(d), LAMBDA r : Return(r, ObjectNullMultiple256Record(r.ret)))

(* switch (recordType) of decodeNext                                    *)
decodeRecordOfType(d, tag) ==
    CASE tag = RT_SerializedStreamHeader -> decodeSerializationHeader(d)
      [] tag = RT_BinaryLibrary -> decodeBinaryLibrary(d)
      [] tag = RT_ClassWithMembersAndTypes -> decodeClassWithMembersAndTypes(d)
      [] tag = RT_SystemClassWithMembersAndTypes -> decodeSystemClassWithMembersAndTypes(d)
      [] tag = RT_SystemClassWithMembers -> decodeSystemClassWithMembers(d)
      [] tag = RT_ClassWithMembers -> decodeClassWithMembers(d)
      [] tag = RT_ClassWithId -> decodeClassWithId(d)
      [] tag = RT_BinaryObjectString -> decodeBinaryObjectString(d)
      [] tag = RT_BinaryArray -> decodeBinaryArray(d)
      [] tag = RT_ArraySinglePrimitive -> decodeArraySinglePrimitive(d)
      [] tag = RT_ArraySingleObject -> decodeArraySingleObject(d)
      [] tag = RT_ArraySingleString -> decodeArraySingleString(d)
      [] tag = RT_MemberPrimitiveTyped -> decodeMemberPrimitiveTyped(d)
      [] tag = RT_MemberReference -> decodeMemberReference(d)
      [] tag = RT_ObjectNull -> Return(d, ObjectNullRecord)
      [] tag = RT_ObjectNullMultiple -> decodeObjectNullMultiple(d)
      [] tag = RT_ObjectNullMultiple256 -> decodeObjectNullMultiple256(d)
      [] tag = RT_MessageEnd -> Return(d, MessageEndRecord)
      [] OTHER -> Throw(d, "Unsupported record type")

decodeNext(d) ==
    Then(readByte(d), LAMBDA r : decodeRecordOfType(Log(r, EvRead(r.ret, d.offset)), r.ret))

(* the main loop, were it not to stop at MessageEnd                     *)
RECURSIVE decodeLoopUnstopped(_, _)
decodeLoopUnstopped(d, count) ==
    Then(decodeNext(Log(d, EvTop(d.offset))), LAMBDA r :
      IF count + 1 > MaxRecordCount
        THEN Throw(r, "Too many records - possible infinite loop")
      ELSE decodeLoopUnstopped(r, count + 1))

(* do { record = decodeNext(); count++ } while (!(record instanceof      *)
(* MessageEndRecord)), with the cap on count                             *)
RECURSIVE decodeLoop(_, _)
decodeLoop(d, count) ==
    Then(decodeNext(Log(d, EvTop(d.offset))), LAMBDA r :
      IF count + 1 > MaxRecordCount
        THEN Throw(r, "Too many records - possible infinite loop")
      ELSE IF r.ret.t = "end" THEN r
      ELSE decodeLoop(r, count + 1))

(* decode(), were it to return the first record of the stream           *)
decodeRecordsFirst(d, rootId) ==
    Then(decodeLoop(d, 0), LAMBDA l :
      IF l.heap = <<>> THEN Throw(l, "Root object not found")
      ELSE Return(l, Obj(1)))

(* the rest of decode() once the header is read                         *)
decodeRecords(d, rootId) ==
    Then(decodeLoop(d, 0), LAMBDA l :
      IF ~MapHas(l.recordMap, rootId) THEN Throw(l, "Root object not found")
      ELSE Return(l, Obj(l.recordMap[rootId])))

(* NrbfDecoder.decode(): the decoder after the call; ok says whether it  *)
(* returned, and then ret is the root record                             *)
decode(d) ==
    Then(readByte(d), LAMBDA h :
      IF h.ret # RT_SerializedStreamHeader THEN Throw(h, "Invalid header")
      ELSE Then(decodeSerializationHeader(h), LAMBDA d4 :
             decodeRecords([d4 EXCEPT !.header = d4.ret], d4.ret.v[1])))

(* getRecord(objectId)                                                  *)
getRecord(d, objectId) ==
    IF MapHas(d.recordMap, objectId) THEN Obj(d.recordMap[objectId]) ELSE Undefined

(* resolveReference(ref): the record the table holds under ref.idRef,   *)
(* or the exception                                                     *)
resolveReference(d, ref) ==
    IF ~MapHas(d.recordMap, ref.v) THEN Throw(d, "Cannot resolve reference")
    ELSE Return(d, Obj(d.recordMap[ref.v]))

(* ------------------------------------------------------------------ *)
(* class BinaryWriter: the chunks, kept as the bytes written so far     *)
Write(e, bytes) == IF e.ok THEN [e EXCEPT !.out = @ \o bytes] ELSE e

(* ToNumber of a value handed to an integer writer                      *)
ToNumber(value) ==
    CASE value.t = "num" -> value.v
      [] value.t = "bool" -> (IF value.v THEN 1 ELSE 0)
      [] OTHER -> 0

(* the truthiness of a value                                            *)
Truthy(value) ==
    CASE value.t = "bool" -> value.v
      [] value.t = "num" -> value.v # 0
      [] value.t = "str" -> value.v # <<>>
      [] value.t \in {"null", "undef"} -> FALSE
      [] OTHER -> TRUE

writeByte(e, value) == Write(e, <<value % 256>>)
writeInt16(e, value) == Write(e, Int16Bytes(value))
writeInt32(e, value) == Write(e, Int32Bytes(value))
writeBoolean(e, value) == writeByte(e, IF Truthy(value) THEN 1 ELSE 0)

(* value.charCodeAt(0), NaN for the empty string                        *)
writeChar(e, value) ==
    writeByte(e, IF value.t = "str" /\ value.v # <<>> THEN value.v[1] ELSE 0)

(* b = value & 0x7F; value >>= 7; continue while value > 0              *)
RECURSIVE VarIntBytes(_)
VarIntBytes(value) ==
    LET b == value % 128
        rest == value \div 128
    IN IF rest > 0 THEN <<b + 128>> \o VarIntBytes(rest) ELSE <<b>>

writeVariableLengthInt(e, value) == Write(e, VarIntBytes(value))

writeLengthPrefixedString(e, str) ==
    Write(writeVariableLengthInt(e, Len(TextEncode(str))), TextEncode(str))

(* ------------------------------------------------------------------ *)
(* class NrbfEncoder: the writer's bytes and the set writtenRecords;    *)
(* ok and err say how the last call ended, ret is what it returned      *)
NewEncoder == [out |-> <<>>, writtenRecords |-> {}, ok |-> TRUE, err |-> "",
               ret |-> <<>>]

EThrow(e, msg) == IF e.ok THEN [e EXCEPT !.ok = FALSE, !.err = msg] ELSE e

RECURSIVE encodeRecord(_, _, _)
RECURSIVE writeObjectValues(_, _, _, _)

writePrimitiveValue(e, value, type) ==
    IF ~e.ok \/ value.t = "null" THEN e
    ELSE CASE type = PT_Boolean -> writeBoolean(e, value)
           [] type = PT_Byte -> writeByte(e, ToNumber(value))
           [] type = PT_SByte -> writeByte(e, ToNumber(value))
           [] type = PT_Char -> writeChar(e, value)
           [] type \in {PT_Int16, PT_UInt16} -> writeInt16(e, ToNumber(value))
           [] type = PT_Int32 -> writeInt32(e, ToNumber(value))
           [] type \in {PT_UInt32, PT_Int64, PT_UInt64, PT_Single, PT_Double,
                        PT_Decimal, PT_DateTime, PT_TimeSpan} ->
                Write(e, IF value.t = "wide" THEN value.v[2] ELSE <<>>)
           [] type = PT_String ->
                writeLengthPrefixedString(e, IF value.t = "str" THEN value.v ELSE <<>>)
           [] OTHER -> e

writeObjectValue(e, heap, value) ==
    IF ~e.ok THEN e
    ELSE IF value.t = "null" \/ value.t = "undef" THEN writeByte(e, RT_ObjectNull)
    ELSE IF IsRecord(value) THEN encodeRecord(e, heap, value)
    ELSE IF value.t = "bool" THEN writeBoolean(e, value)
    ELSE IF value.t = "num" \/ (value.t = "wide" /\ value.v[1] # PT_Decimal)
      THEN EThrow(e, "Cannot encode bare number - use typed array records")
    ELSE EThrow(e, "Cannot encode bare string - wrap in BinaryObjectStringRecord")

(* for (const element of elementValues) this.writeObjectValue(element)  *)
writeObjectValues(e, heap, values, i) ==
    IF ~e.ok \/ i > Len(values) THEN e
    ELSE writeObjectValues(writeObjectValue(e, heap, values[i]), heap, values, i + 1)

RECURSIVE writeStrings(_, _, _)
writeStrings(e, strs, i) ==
    IF ~e.ok \/ i > Len(strs) THEN e
    ELSE writeStrings(writeLengthPrefixedString(e, strs[i]), strs, i + 1)

writeClassInfo(e, classInfo) ==
    writeStrings(
        writeInt32(writeLengthPrefixedString(writeInt32(e, classInfo.objectId),
                                             classInfo.name),
                   classInfo.memberCount),
        classInfo.memberNames, 1)

writeAdditionalTypeInfo(e, info) ==
    CASE info.type = "Primitive" -> writeByte(e, info.primitiveType)
      [] info.type = "SystemClass" -> writeLengthPrefixedString(e, info.className)
      [] info.type = "Class" ->
           writeInt32(writeLengthPrefixedString(e, info.className), info.libraryId)
      [] OTHER -> e

RECURSIVE writeAdditionalInfos(_, _, _)
writeAdditionalInfos(e, infos, i) ==
    IF ~e.ok \/ i > Len(infos) THEN e
    ELSE writeAdditionalInfos(writeAdditionalTypeInfo(e, infos[i]), infos, i + 1)

(* memberTypeInfo is the record's field: null makes the for-of throw    *)
writeMemberTypeInfo(e, memberTypeInfo) ==
    IF memberTypeInfo.t = "null" THEN EThrow(e, "TypeError")
    ELSE writeAdditionalInfos(Write(e, [i \in 1..Len(memberTypeInfo.v.binaryTypeEnums) |->
                                          memberTypeInfo.v.binaryTypeEnums[i] % 256]),
                              memberTypeInfo.v.additionalInfos, 1)

(* this.writeObjectValue(record.memberValues.get(memberName)) per name   *)
RECURSIVE writeMembers(_, _, _, _)
writeMembers(e, heap, record, i) ==
    IF ~e.ok \/ i > Len(record.classInfo.memberNames) THEN e
    ELSE writeMembers(
           writeObjectValue(e, heap,
                            IF record.classInfo.memberNames[i] \in DOMAIN record.memberValues
                              THEN record.memberValues[record.classInfo.memberNames[i]]
                              ELSE Undefined),
           heap, record, i + 1)

encodeClassRecord(e, heap, record) ==
    Then(writeClassInfo(writeByte(e, record.recordTypeValue), record.classInfo), LAMBDA e2 :
    Then(IF record.recordTypeValue \in {RT_ClassWithMembersAndTypes,
                                        RT_SystemClassWithMembersAndTypes}
           THEN writeMemberTypeInfo(e2, record.memberTypeInfo)
           ELSE e2,
         LAMBDA e3 :
    Then(IF record.recordTypeValue \in {RT_ClassWithMembersAndTypes, RT_ClassWithMembers}
           THEN writeInt32(e3, ToNumber(record.libraryId))
           ELSE e3,
         LAMBDA e4 : writeMembers(e4, heap, record, 1))))

RECURSIVE writeInt32s(_, _, _)
writeInt32s(e, ns, i) ==
    IF ~e.ok \/ i > Len(ns) THEN e
    ELSE writeInt32s(writeInt32(e, ns[i]), ns, i + 1)

encodeBinaryArrayRecord(e, heap, record) ==
    Then(writeInt32(writeByte(e, RT_BinaryArray), record.arrayObjectId), LAMBDA e1 :
    Then(writeInt32(writeByte(e1, record.binaryArrayTypeEnum), record.rank), LAMBDA e2 :
    Then(writeInt32s(e2, record.lengths, 1), LAMBDA e3 :
    Then(IF record.lowerBounds.t # "null"
           THEN writeInt32s(e3, record.lowerBounds.v, 1) ELSE e3,
         LAMBDA e4 :
    Then(writeAdditionalTypeInfo(writeByte(e4, record.typeEnum), record.additionalTypeInfo),
         LAMBDA e5 : writeObjectValues(e5, heap, record.elementValues, 1))))))

RECURSIVE writePrimitiveValues(_, _, _, _)
writePrimitiveValues(e, values, type, i) ==
    IF ~e.ok \/ i > Len(values) THEN e
    ELSE writePrimitiveValues(writePrimitiveValue(e, values[i], type), values, type, i + 1)

encodeArraySinglePrimitive(e, record) ==
    writePrimitiveValues(
        writeByte(writeInt32(writeInt32(writeByte(e, RT_ArraySinglePrimitive),
                                        record.arrayObjectId),
                             record.length),
                  record.primitiveTypeEnum),
        record.elementValues, record.primitiveTypeEnum, 1)

encodeArraySingleObject(e, heap, record) ==
    writeObjectValues(
        writeInt32(writeInt32(writeByte(e, RT_ArraySingleObject), record.arrayObjectId),
                   record.length),
        heap, record.elementValues, 1)

encodeArraySingleString(e, heap, record) ==
    writeObjectValues(
        writeInt32(writeInt32(writeByte(e, RT_ArraySingleString), record.arrayObjectId),
                   record.length),
        heap, record.elementValues, 1)

encodeBinaryObjectString(e, record) ==
    writeLengthPrefixedString(
        writeInt32(writeByte(e, RT_BinaryObjectString), record.stringObjectId),
        record.value)

encodeBinaryLibrary(e, record) ==
    writeLengthPrefixedString(writeInt32(writeByte(e, RT_BinaryLibrary), record.v[1]),
                              record.v[2])

encodeMemberPrimitiveTyped(e, record) ==
    writePrimitiveValue(writeByte(writeByte(e, RT_MemberPrimitiveTyped), record.v[1]),
                        record.v[2], record.v[1])

(* encodeMemberReference, were a reference taken for a record that was  *)
(* written already                                                      *)
encodeMemberReferenceOmitted(e, record) == e

encodeMemberReference(e, record) ==
    writeInt32(writeByte(e, RT_MemberReference), record.v)

encodeObjectNullMultiple(e, record) ==
    writeInt32(writeByte(e, RT_ObjectNullMultiple), record.v)

encodeObjectNullMultiple256(e, record) ==
    writeByte(writeByte(e, RT_ObjectNullMultiple256), record.v)

(* record.objectId && this.writtenRecords.has(record.objectId)          *)
AlreadyWritten(e, heap, record) ==
    Truthy(ObjectIdOf(heap, record)) /\ ObjectIdOf(heap, record).v \in e.writtenRecords

(* if (record.objectId) this.writtenRecords.add(record.objectId)        *)
MarkWritten(e, heap, record) ==
    IF e.ok /\ Truthy(ObjectIdOf(heap, record))
      THEN [e EXCEPT !.writtenRecords = @ \cup {ObjectIdOf(heap, record).v}]
      ELSE e

(* the if / else-if chain of encodeRecord over the record's class     *)
encodeRecordOfType(e, heap, record) ==
    CASE record.t = "obj" /\ heap[record.v].k = "class" ->
           encodeClassRecord(e, heap, heap[record.v])
      [] record.t = "obj" /\ heap[record.v].k = "barray" ->
           encodeBinaryArrayRecord(e, heap, heap[record.v])
      [] record.t = "obj" /\ heap[record.v].k = "aprim" ->
           encodeArraySinglePrimitive(e, heap[record.v])
      [] record.t = "obj" /\ heap[record.v].k = "aobj" ->
           encodeArraySingleObject(e, heap, heap[record.v])
      [] record.t = "obj" /\ heap[record.v].k = "astr" ->
           encodeArraySingleString(e, heap, heap[record.v])
      [] record.t = "obj" /\ heap[record.v].k = "string" ->
           encodeBinaryObjectString(e, heap[record.v])
      [] record.t = "lib" -> encodeBinaryLibrary(e, record)
      [] record.t = "mpt" -> encodeMemberPrimitiveTyped(e, record)
      [] record.t = "ref" -> encodeMemberReference(e, record)
      [] record.t = "nullrec" -> writeByte(e, RT_ObjectNull)
      [] record.t = "nullmulti" -> encodeObjectNullMultiple(e, record)
      [] record.t = "nullmulti256" -> encodeObjectNullMultiple256(e, record)
      [] OTHER -> e

encodeRecord(e, heap, record) ==
    IF ~e.ok \/ AlreadyWritten(e, heap, record) THEN e
    ELSE MarkWritten(encodeRecordOfType(e, heap, record), heap, record)

(* rootId || root.objectId || 1                                         *)
ActualRootIdTruthy(heap, root, rootId) ==
    IF Truthy(rootId) THEN rootId.v
    ELSE IF Truthy(ObjectIdOf(heap, root)) THEN ObjectIdOf(heap, root).v
    ELSE 1

(* rootId ?? root.objectId ?? 1                                         *)
ActualRootId(heap, root, rootId) ==
    IF rootId.t = "num" THEN rootId.v
    ELSE IF ObjectIdOf(heap, root).t = "num" THEN ObjectIdOf(heap, root).v
    ELSE 1

(* the header, were minorVersion written before majorVersion           *)
writeHeaderMinorFirst(e, actualRootId) ==
    writeInt32(writeInt32(writeInt32(
        writeInt32(writeByte(e, RT_SerializedStreamHeader), actualRootId), -1), 0), 1)

writeHeader(e, actualRootId) ==
    writeInt32(writeInt32(writeInt32(
        writeInt32(writeByte(e, RT_SerializedStreamHeader), actualRootId), -1), 1), 0)

(* NrbfEncoder.encode(root, rootId?): rootId is a number or undefined;   *)
(* the encoder after the call, with ret the buffer when ok               *)
encode(e, heap, root, rootId) ==
    Then(writeByte(encodeRecord(writeHeader([e EXCEPT !.ok = TRUE, !.err = ""],
                                            ActualRootId(heap, root, rootId)),
                                heap, root),
                   RT_MessageEnd),
         LAMBDA e4 : [e4 EXCEPT !.ret = e4.out])

(* ------------------------------------------------------------------ *)
(* class ClassRecord: getValue and setValue on the record at addr       *)
getValue(heap, addr, memberName) ==
    IF memberName \in DOMAIN heap[addr].memberValues
      THEN heap[addr].memberValues[memberName]
      ELSE Undefined

Includes(seq, x) == \E i \in 1..Len(seq) : seq[i] = x

(* setValue, were it to store the value without looking the name up     *)
setValueUnchecked(heap, addr, memberName, value) ==
    [heap |-> [heap EXCEPT ![addr].memberValues = MapSet(@, memberName, value)],
     threw |-> FALSE]

(* the heap after setValue, and whether it threw                        *)
setValue(heap, addr, memberName, value) ==
    IF ~Includes(heap[addr].classInfo.memberNames, memberName)
      THEN [heap |-> heap, threw |-> TRUE]
      ELSE [heap |-> [heap EXCEPT ![addr].memberValues = MapSet(@, memberName, value)],
            threw |-> FALSE]

(* ------------------------------------------------------------------ *)
(* class NrbfUtils                                                      *)
Dot == 46

(* path.split('.')                                                      *)
RECURSIVE SplitFrom(_, _, _)
SplitFrom(path, i, part) ==
    IF i > Len(path) THEN <<part>>
    ELSE IF path[i] = Dot THEN <<part>> \o SplitFrom(path, i + 1, <<>>)
    ELSE SplitFrom(path, i + 1, Append(part, path[i]))

Split(path) == SplitFrom(path, 1, <<>>)

(* parts.join('.')                                                      *)
RECURSIVE Join(_)
Join(parts) ==
    IF parts = <<>> THEN <<>>
    ELSE IF Len(parts) = 1 THEN parts[1]
    ELSE parts[1] \o <<Dot>> \o Join(Tail(parts))

IsDigit(c) == c >= 48 /\ c <= 57
IsSpace(c) == c \in {9, 10, 11, 12, 13, 32}

RECURSIVE DigitsValue(_, _)
DigitsValue(s, acc) ==
    IF s = <<>> THEN acc ELSE DigitsValue(Tail(s), acc * 10 + (Head(s) - 48))

RECURSIVE TrimLeft(_)
TrimLeft(s) == IF s # <<>> /\ IsSpace(Head(s)) THEN TrimLeft(Tail(s)) ELSE s

RECURSIVE TrimRight(_)
TrimRight(s) ==
    IF s # <<>> /\ IsSpace(s[Len(s)]) THEN TrimRight(SubSeq(s, 1, Len(s) - 1)) ELSE s

(* Number(s) of a trimmed string made of a sign and decimal digits:     *)
(* [nan, v]; a string of any other form is NaN here                     *)
NumberOfTrimmed(s) ==
    IF s = <<>> THEN [nan |-> FALSE, v |-> 0]
    ELSE IF s[1] = 45 /\ Len(s) > 1 /\ \A i \in 2..Len(s) : IsDigit(s[i])
      THEN [nan |-> FALSE, v |-> 0 - DigitsValue(Tail(s), 0)]
    ELSE IF s[1] = 43 /\ Len(s) > 1 /\ \A i \in 2..Len(s) : IsDigit(s[i])
      THEN [nan |-> FALSE, v |-> DigitsValue(Tail(s), 0)]
    ELSE IF \A i \in 1..Len(s) : IsDigit(s[i])
      THEN [nan |-> FALSE, v |-> DigitsValue(s, 0)]
    ELSE [nan |-> TRUE, v |-> 0]

NumberOf(part) == NumberOfTrimmed(TrimRight(TrimLeft(part)))

IsArrayNode(node) == node.k \in {"aobj", "aprim", "astr", "barray"}

(* getArray()[n]                                                        *)
ElementAt(elementValues, n) ==
    IF n >= 0 /\ n < Len(elementValues) THEN elementValues[n + 1] ELSE Undefined

(* one turn of the for loop of getNestedValue on the current value once *)
(* a reference was resolved: the member or element named by part        *)
MemberOrElement(heap, current, part) ==
    IF current.t # "obj" THEN Undefined
    ELSE IF heap[current.v].k = "class" THEN getValue(heap, current.v, part)
    ELSE IF IsArrayNode(heap[current.v]) /\ ~NumberOf(part).nan
      THEN ElementAt(heap[current.v].elementValues, NumberOf(part).v)
    ELSE Undefined

(* if (current instanceof MemberReferenceRecord) at the top of the loop *)
ResolveReference(current, hasDecoder, d) ==
    IF current.t = "ref"
      THEN (IF hasDecoder THEN getRecord(d, current.v) ELSE Undefined)
      ELSE current

(* getNestedValue(record, path, decoder): hasDecoder says whether the   *)
(* third argument was passed                                            *)
RECURSIVE getNestedFrom(_, _, _, _, _, _)
nextPart(heap, next, parts, i, hasDecoder, d) ==
    IF next.t = "undef" \/ next.t = "null" THEN Undefined
    ELSE getNestedFrom(heap, next, parts, i + 1, hasDecoder, d)

getNestedFrom(heap, current, parts, i, hasDecoder, d) ==
    IF i > Len(parts)
      THEN IF current.t = "ref" /\ hasDecoder THEN getRecord(d, current.v) ELSE current
    ELSE nextPart(heap,
                  MemberOrElement(heap, ResolveReference(current, hasDecoder, d), parts[i]),
                  parts, i, hasDecoder, d)

(* getNestedValue, were it to leave the decoder it was given unused     *)
getNestedValueAlone(heap, record, path, hasDecoder, d) ==
    getNestedFrom(heap, record, Split(path), 1, FALSE, d)

getNestedValue(heap, record, path, hasDecoder, d) ==
    getNestedFrom(heap, record, Split(path), 1, hasDecoder, d)

(* ------------------------------------------------------------------ *)
(* GUIDs.  A string is the sequence of its character codes.             *)
GuidByteCount == 16

IsHexDigit(c) == (c >= 48 /\ c <= 57) \/ (c >= 97 /\ c <= 102) \/ (c >= 65 /\ c <= 70)

HexDigitValue(c) ==
    IF c <= 57 THEN c - 48 ELSE IF c >= 97 THEN c - 87 ELSE c - 55

(* parseInt(s, 16) stored into a Uint8Array: the longest prefix of hex  *)
(* digits of the at most two characters of s; NaN is stored as 0        *)
ParseHexPair(s) ==
    IF s = <<>> \/ ~IsHexDigit(s[1]) THEN 0
    ELSE IF Len(s) = 1 \/ ~IsHexDigit(s[2]) THEN HexDigitValue(s[1])
    ELSE 16 * HexDigitValue(s[1]) + HexDigitValue(s[2])

(* guidString.replace(/-/g, '')                                         *)
RemoveDashes(s) == SelectSeq(s, LAMBDA c : c # 45)

(* str.slice(from, to) with 0 <= from <= to                             *)
Slice(s, from, to) ==
    SubSeq(s, from + 1, IF to > Len(s) THEN Len(s) ELSE to)

(* bytes[i] = parseInt(hex.slice(i * 2, i * 2 + 2), 16) for i in 0..15  *)
HexBytes(hex) ==
    [i \in 1..GuidByteCount |-> ParseHexPair(Slice(hex, (i - 1) * 2, (i - 1) * 2 + 2))]

GuidBytes(guidString) == HexBytes(RemoveDashes(guidString))

(* b.toString(16).padStart(2, '0')                                      *)
HexDigitChar(n) == IF n < 10 THEN 48 + n ELSE 87 + n
ByteToHex(b) == <<HexDigitChar(b \div 16), HexDigitChar(b % 16)>>

RECURSIVE HexJoin(_)
HexJoin(bytes) ==
    IF bytes = <<>> THEN <<>> ELSE ByteToHex(Head(bytes)) \o HexJoin(Tail(bytes))

(* s.toLowerCase() on a string of ASCII characters                      *)
ToLowerCase(s) == [i \in 1..Len(s) |-> IF s[i] >= 65 /\ s[i] <= 90 THEN s[i] + 32 ELSE s[i]]

GuidMemberNames ==
    <<(<<95, 97>>), (<<95, 98>>), (<<95, 99>>), (<<95, 100>>), (<<95, 101>>), (<<95, 102>>),
      (<<95, 103>>), (<<95, 104>>), (<<95, 105>>), (<<95, 106>>), (<<95, 107>>)>>

(* 'System.Guid'                                                        *)
GuidClassName == <<83, 121, 115, 116, 101, 109, 46, 71, 117, 105, 100>>

GuidMemberTypeInfo ==
    MemberTypeInfo([i \in 1..11 |-> BT_Primitive],
                   [i \in 1..11 |-> InfoPrimitive(IF i = 1 THEN PT_Int32
                                                  ELSE IF i <= 3 THEN PT_Int16
                                                  ELSE PT_Byte)])

(* the values createGuidRecord sets from the bytes: _a = getInt32(0),   *)
(* _b = getInt16(4), _c = getInt16(6), _d .. _k = bytes[8] .. bytes[15] *)
GuidMemberValue(bytes, i) ==
    IF i = 1 THEN Num(ToInt32(SubSeq(bytes, 1, 4)))
    ELSE IF i = 2 THEN Num(ToInt16(SubSeq(bytes, 5, 6)))
    ELSE IF i = 3 THEN Num(ToInt16(SubSeq(bytes, 7, 8)))
    ELSE Num(bytes[i + 5])

RECURSIVE setGuidValues(_, _, _, _)
setGuidValues(heap, addr, bytes, i) ==
    IF i > 11 THEN heap
    ELSE setGuidValues(setValue(heap, addr, GuidMemberNames[i], GuidMemberValue(bytes, i)).heap,
                       addr, bytes, i + 1)

(* ClassRecord.createGuidRecord(objectId, guidString): the heap that    *)
(* holds the new record at address 1                                    *)
createGuidRecord(objectId, guidString) ==
    setGuidValues(
        <<ClassRecord([objectId |-> objectId, name |-> GuidClassName, memberCount |-> 11,
                       memberNames |-> GuidMemberNames],
                      GuidMemberTypeInfo, Null, RT_SystemClassWithMembersAndTypes)>>,
        1, GuidBytes(guidString), 1)

(* x & 0xFF of a member value, and the element a Uint8Array keeps of it *)
LowByte(value) == ToNumber(value) % 256

(* the 16 bytes reconstructGuid builds from the members _a .. _k        *)
GuidRecordBytes(heap, addr) ==
    [i \in 1..GuidByteCount |->
       IF i <= 4 THEN Int32Bytes(ToNumber(getValue(heap, addr, GuidMemberNames[1])))[i]
       ELSE IF i <= 6 THEN Int16Bytes(ToNumber(getValue(heap, addr, GuidMemberNames[2])))[i - 4]
       ELSE IF i <= 8 THEN Int16Bytes(ToNumber(getValue(heap, addr, GuidMemberNames[3])))[i - 6]
       ELSE LowByte(getValue(heap, addr, GuidMemberNames[i - 5]))]

(* hex.slice(0, 8)-hex.slice(8, 12)-hex.slice(12, 16)-hex.slice(16, 20)- *)
(* hex.slice(20)                                                        *)
GuidFormat(hex) ==
    Slice(hex, 0, 8) \o <<45>> \o Slice(hex, 8, 12) \o <<45>> \o Slice(hex, 12, 16)
      \o <<45>> \o Slice(hex, 16, 20) \o <<45>> \o Slice(hex, 20, Len(hex))

(* reconstructGuid, were it to print the fields _a, _b and _c with     *)
(* their most significant byte first, as Guid.ToString does             *)
reconstructGuidFieldOrder(heap, addr) ==
    GuidFormat(HexJoin([i \in 1..GuidByteCount |->
        GuidRecordBytes(heap, addr)[(<<4, 3, 2, 1, 6, 5, 8, 7, 9, 10, 11, 12, 13, 14, 15, 16>>)[i]]]))

(* ClassRecord.reconstructGuid(guidRecord), which NrbfUtils.parseGuid   *)
(* returns                                                              *)
reconstructGuid(heap, addr) ==
    GuidFormat(HexJoin(GuidRecordBytes(heap, addr)))

parseGuid(heap, addr) == reconstructGuid(heap, addr)

(* NrbfUtils.startsWithPayloadHeader(buffer)                            *)
startsWithPayloadHeader(buffer) ==
    IF Len(buffer) < 17 THEN FALSE
    ELSE IF buffer[1] # RT_SerializedStreamHeader THEN FALSE
    ELSE \A i \in 0..7 : buffer[10 + i] = (<<1, 0, 0, 0, 0, 0, 0, 0>>)[i + 1]

(* the inner loop of findGuidInBinary at offset i                       *)
MatchesAt(data, pattern, i) ==
    \A j \in 0..(Len(pattern) - 1) : data[i + j + 1] = pattern[j + 1]

(* for (i = from; i <= last; i++) if (match) matches.push(i)            *)
RECURSIVE findFrom(_, _, _, _)
findFrom(data, pattern, i, last) ==
    IF ~(i <= last) THEN <<>>
    ELSE (IF MatchesAt(data, pattern, i) THEN <<i>> ELSE <<>>)
           \o findFrom(data, pattern, i + 1, last)

(* findGuidInBinary, were its loop to stop one offset early             *)
findGuidInBinaryShort(buffer, guidString) ==
    findFrom(buffer, GuidBytes(guidString), 0, Len(buffer) - GuidByteCount - 1)

(* NrbfUtils.findGuidInBinary(buffer, guidString)                       *)
findGuidInBinary(buffer, guidString) ==
    findFrom(buffer, GuidBytes(guidString), 0, Len(buffer) - GuidByteCount)

(* NrbfUtils.replaceGuidAtOffset(buffer, offset, newGuidString): a copy *)
(* with data[offset + i] = bytes[i] for i in 0..15; a typed array       *)
(* ignores a store outside its length                                   *)
replaceGuidAtOffset(buffer, offset, newGuidString) ==
    [j \in 1..Len(buffer) |->
       IF j - 1 - offset >= 0 /\ j - 1 - offset < GuidByteCount
         THEN GuidBytes(newGuidString)[j - offset]
         ELSE buffer[j]]

(* ------------------------------------------------------------------ *)
(* The inputs.  A stream is a header followed by up to MaxRecords       *)
(* fragments; a fragment is one record, or the head of a record whose   *)
(* member values or elements are the fragments that follow it.          *)
MaxRecords == 3

NameA == <<65>>
NameE == <<69>>
NameM == <<109>>
NameT == <<84>>
NameX == <<120>>
NameQ == <<113>>

ObjectIds == {1, 2}

Header(rootId) ==
    <<RT_SerializedStreamHeader>> \o Int32Bytes(rootId) \o Int32Bytes(-1)
      \o Int32Bytes(1) \o Int32Bytes(0)

LPS(s) == VarIntBytes(Len(s)) \o s

FragEnd == <<RT_MessageEnd>>
FragNull == <<RT_ObjectNull>>
FragNull256(n) == <<RT_ObjectNullMultiple256, n>>
FragNullMultiple(n) == <<RT_ObjectNullMultiple>> \o Int32Bytes(n)
FragReference(id) == <<RT_MemberReference>> \o Int32Bytes(id)
FragString(id) == <<RT_BinaryObjectString>> \o Int32Bytes(id) \o LPS(<<104>>)
FragArrayObject(id, n) == <<RT_ArraySingleObject>> \o Int32Bytes(id) \o Int32Bytes(n)
(* a BinaryArray of rank 1 and of n elements of type Object             *)
FragBinaryArray(id, n) ==
    <<RT_BinaryArray>> \o Int32Bytes(id) \o <<0>> \o Int32Bytes(1) \o Int32Bytes(n)
      \o <<BT_Object>>
(* SystemClassWithMembers "E" without members                           *)
FragEmptyClass(id) ==
    <<RT_SystemClassWithMembers>> \o Int32Bytes(id) \o LPS(NameE) \o Int32Bytes(0)
(* SystemClassWithMembers "A" with the one member "m"                   *)
FragUntypedClass(id) ==
    <<RT_SystemClassWithMembers>> \o Int32Bytes(id) \o LPS(NameA) \o Int32Bytes(1)
      \o LPS(NameM)
(* SystemClassWithMembersAndTypes "T" with the Int32 member "x" = 42    *)
FragTypedClass(id) ==
    <<RT_SystemClassWithMembersAndTypes>> \o Int32Bytes(id) \o LPS(NameT) \o Int32Bytes(1)
      \o LPS(NameX) \o <<BT_Primitive, PT_Int32>> \o Int32Bytes(42)
FragClassWithId(id, metadataId) ==
    <<RT_ClassWithId>> \o Int32Bytes(id) \o Int32Bytes(metadataId)
(* SystemClassWithMembers "A" whose member "m" is MemberReference(idRef) *)
FragReferringClass(id, idRef) == FragUntypedClass(id) \o FragReference(idRef)

(* BinaryLibrary "A"                                                    *)
FragLibrary(id) == <<RT_BinaryLibrary>> \o Int32Bytes(id) \o LPS(NameA)

Fragments ==
    {FragEnd, FragNull, FragNull256(2), FragNullMultiple(-1), FragNullMultiple(3),
     FragArrayObject(1, 2), FragBinaryArray(1, 2), FragUntypedClass(1),
     FragTypedClass(1), FragTypedClass(2), FragClassWithId(1, 2), FragClassWithId(2, 1)}
    \cup {FragReference(id) : id \in ObjectIds}
    \cup {FragString(id) : id \in ObjectIds}
    \cup {FragEmptyClass(id) : id \in ObjectIds}
    \cup {FragReferringClass(1, 2), FragReferringClass(2, 1)}
    \cup {FragLibrary(2), FragNull256(0)}

SetPaths == {NameM, NameX, NameQ, NameM \o <<Dot>> \o NameX}
SetValues == {Num(7), Bool(TRUE), Str(<<104>>)}
GetPaths == {NameM, NameQ, NameM \o <<Dot>> \o NameM, NameM \o <<Dot>> \o NameX}

(* the declared type of a member: its BinaryType and AdditionalTypeInfo *)
(* in the record's memberTypeInfo, or Untyped when the record has none  *)
Untyped == [binaryType |-> BT_Object, info |-> InfoNone, typed |-> FALSE]

MemberSlot(node, memberName) ==
    IF node.memberTypeInfo.t = "null" \/ ~Includes(node.classInfo.memberNames, memberName)
      THEN Untyped
      ELSE [binaryType |-> node.memberTypeInfo.v.binaryTypeEnums[
                             CHOOSE i \in 1..Len(node.classInfo.memberNames) :
                               node.classInfo.memberNames[i] = memberName],
            info |-> node.memberTypeInfo.v.additionalInfos[
                       CHOOSE i \in 1..Len(node.classInfo.memberNames) :
                         node.classInfo.memberNames[i] = memberName],
            typed |-> TRUE]

NoCall ==
    [op |-> "none", path |-> <<>>, field |-> <<>>, value |-> Undefined, target |-> 0,
     slot |-> Untyped, threw |-> FALSE]

(* ------------------------------------------------------------------ *)
(* The state: the input buffer and the number of fragments fed into it, *)
(* the decoder (with the heap of the records it built), the root that   *)
(* decode returned, the encoder, the buffer encode returned, the        *)
(* setValue made on the graph (its path, the record and the member slot *)
(* it addressed, its outcome), and the number of times an encoded       *)
(* buffer was read back.                                                *)
VARIABLES input, fed, pc, decoder, root, encoder, output, call, gen

vars == <<input, fed, pc, decoder, root, encoder, output, call, gen>>

Init ==
    /\ input = Header(1)
    /\ fed = 0
    /\ pc = "input"
    /\ decoder = NewDecoder(<<>>)
    /\ root = Undefined
    /\ encoder = NewEncoder
    /\ output = <<>>
    /\ call = NoCall
    /\ gen = 0

(* the next fragment of the file arrives                                *)
Feed ==
    /\ pc = "input"
    /\ gen = 0
    /\ fed < MaxRecords
    /\ \E f \in Fragments : input' = input \o f
    /\ fed' = fed + 1
    /\ UNCHANGED <<pc, decoder, root, encoder, output, call, gen>>

(* decoder = new NrbfDecoder(input); root = decoder.decode()            *)
Decode ==
    /\ pc = "input"
    /\ \E d \in {decode(NewDecoder(input))} :
          /\ decoder' = d
          /\ root' = IF d.ok THEN d.ret ELSE Undefined
          /\ pc' = IF d.ok THEN "decoded" ELSE "failed"
    /\ UNCHANGED <<input, fed, encoder, output, call, gen>>

(* the parent of NrbfCli.set: the root, or the value at parentPath with *)
(* a reference resolved                                                 *)
ParentOf(d, r, parentPath) ==
    IF parentPath = <<>> THEN r
    ELSE ResolveReference(getNestedValue(d.heap, r, parentPath, TRUE, d), TRUE, d)

(* NrbfCli.set up to the write: the parent of the path is looked up     *)
(* from the root and must be a ClassRecord; parent.setValue(field, v)   *)
SetValue ==
    /\ pc = "decoded"
    /\ call.op = "none"
    /\ \E path \in SetPaths, value \in SetValues :
         \E parts \in {Split(path)} :
         \E parent \in {ParentOf(decoder, root, Join(SubSeq(parts, 1, Len(parts) - 1)))} :
            /\ parent.t = "obj"
            /\ decoder.heap[parent.v].k = "class"
            /\ \E r \in {setValue(decoder.heap, parent.v, parts[Len(parts)], value)} :
                  /\ decoder' = [decoder EXCEPT !.heap = r.heap]
                  /\ call' = [op |-> "setValue", path |-> path,
                              field |-> parts[Len(parts)], value |-> value,
                              target |-> parent.v,
                              slot |-> MemberSlot(decoder.heap[parent.v], parts[Len(parts)]),
                              threw |-> r.threw]
    /\ UNCHANGED <<input, fed, pc, root, encoder, output, gen>>

(* output = new NrbfEncoder().encode(root)                              *)
Encode ==
    /\ pc = "decoded"
    /\ \E e \in {encode(NewEncoder, decoder.heap, root, Undefined)} :
          /\ encoder' = e
          /\ output' = IF e.ok THEN e.ret ELSE <<>>
          /\ pc' = IF e.ok THEN "encoded" ELSE "encodeFailed"
    /\ UNCHANGED <<input, fed, decoder, root, call, gen>>

(* the buffer encode returned is written out and is the next input      *)
Reload ==
    /\ pc = "encoded"
    /\ gen = 0
    /\ input' = output
    /\ pc' = "input"
    /\ gen' = 1
    /\ UNCHANGED <<fed, decoder, root, encoder, output, call>>

(* the MemberReference records held as member values of the graph       *)
ReferencesHeld(heap) ==
    {heap[x[1]].memberValues[x[2]] :
       x \in {y \in UNION {{<<b, m>> : m \in DOMAIN heap[b].memberValues} :
                            b \in {c \in DOMAIN heap : heap[c].k = "class"}} :
               heap[y[1]].memberValues[y[2]].t = "ref"}}

(* NrbfCli.get: value = NrbfUtils.getNestedValue(root, path, decoder);   *)
(* the interactive commands pass no decoder                              *)
GetNestedValue ==
    /\ pc = "decoded"
    /\ call.op = "none"
    /\ \E path \in GetPaths, hasDecoder \in BOOLEAN :
         call' = [op |-> IF hasDecoder THEN "getNestedValue" ELSE "getNestedValueAlone",
                  path |-> path, field |-> <<>>,
                  value |-> getNestedValue(decoder.heap, root, path, hasDecoder, decoder),
                  target |-> 0, slot |-> Untyped, threw |-> FALSE]
    /\ pc' = "queried"
    /\ UNCHANGED <<input, fed, decoder, root, encoder, output, gen>>

(* a consumer dereferences a reference of the graph:                    *)
(* decoder.resolveReference(ref)                                        *)
ResolveRef ==
    /\ pc = "decoded"
    /\ call.op = "none"
    /\ \E ref \in ReferencesHeld(decoder.heap) :
         \E r \in {resolveReference(decoder, ref)} :
            call' = [op |-> "resolveReference", path |-> <<>>, field |-> <<>>,
                     value |-> ref,
                     target |-> IF r.ok THEN r.ret.v ELSE 0,
                     slot |-> Untyped, threw |-> ~r.ok]
    /\ pc' = "queried"
    /\ UNCHANGED <<input, fed, decoder, root, encoder, output, gen>>

Next == Feed \/ Decode \/ SetValue \/ Encode \/ Reload \/ GetNestedValue \/ ResolveRef

Spec == Init /\ [][Next]_vars

(* ------------------------------------------------------------------ *)
(* The library functions called on their own: the inputs                *)
RootIdArgs == {Undefined, Num(0), Num(7), Num(-2)}

(* an untyped class record "A" whose member m refers to the record      *)
ReferringRecord ==
    [ClassRecord([objectId |-> 1, name |-> NameA, memberCount |-> 1,
                  memberNames |-> <<NameM>>], Null, Null, RT_SystemClassWithMembers)
       EXCEPT !.memberValues = MapSet(<<>>, NameM, MemberReferenceRecord(1))]

ZeroGuid == [i \in 1..36 |-> IF i \in {9, 14, 19, 24} THEN 45 ELSE 48]

(* an ArraySingleObjectRecord whose two elements are one and the same   *)
(* BinaryObjectStringRecord                                             *)
SharedStringArray(id) ==
    [heap |-> <<ArraySingleObjectRecord(3, 2, <<Obj(2), Obj(2)>>),
                BinaryObjectStringRecord(id, <<104>>)>>,
     root |-> Obj(1)]

(* record graphs given to encode: the heap and the root                 *)
EncodeRoots ==
    {[heap |-> <<>>, root |-> r] :
       r \in {MemberReferenceRecord(3), ObjectNullRecord, ObjectNullMultiple256Record(2),
              MessageEndRecord, BinaryLibrary(2, NameA)}}
    \cup {[heap |-> <<n>>, root |-> Obj(1)] :
            n \in {BinaryObjectStringRecord(5, <<104>>), BinaryObjectStringRecord(0, <<>>),
                   ArraySingleObjectRecord(3, 1, <<Null>>), ReferringRecord}}
    \cup {[heap |-> createGuidRecord(4, ZeroGuid), root |-> Obj(1)]}
    \cup {SharedStringArray(id) : id \in {0, 5}}

UpperCase(c) == IF c >= 97 /\ c <= 122 THEN c - 32 ELSE c

(* the GUID string of 16 bytes, with the hex digits at the positions    *)
(* upper in upper case                                                  *)
GuidText(bytes, upper) ==
    GuidFormat([p \in 1..32 |-> IF p \in upper THEN UpperCase(HexJoin(bytes)[p])
                                ELSE HexJoin(bytes)[p]])

(* the bytes with the top bit set: none, the most significant byte of   *)
(* _a (4), of _b (6), of _c (8), and others                             *)
GuidHighSets == {{}, {4}, {6}, {8}, {4, 6, 8}, 1..16, {1, 5, 7, 16}}

GuidStrings ==
    {GuidText([i \in 1..16 |-> IF i \in hi THEN x ELSE y], up) :
       x \in {171, 255, 128}, y \in {0, 28, 127}, hi \in GuidHighSets,
       up \in {{}, 1..32, {1, 3, 5, 7, 10, 14, 20, 31}}}

GuidObjectIds == {1, -5}

VarIntSamples ==
    {0, 1, 127, 128, 255, 300, 16383, 16384, 2097151, 2097152, 268435455, 268435456,
     1073741824, 2147483647}

(* encodings of up to six bytes: the first four with the continuation   *)
(* bit, the fifth with and without it                                   *)
VarIntEncodings ==
    {<<a, b, c, d, e>> : a \in {128}, b \in {128, 255}, c \in {128, 255}, d \in {128, 255},
                         e \in {0, 1, 7, 8, 15, 16, 127, 128, 255}}
    \cup {<<255, 255, 255, 255, 15>>, <<128, 128, 128, 128, 128, 1>>,
          <<255, 255, 255, 255, 255, 255>>, <<0>>, <<128, 1>>, <<128>>, <<>>,
          <<1, 104>>, <<128, 128, 128, 128, 16, 104>>}

(* buffers of 16 to 18 bytes of 0xAA and 0x00, and the GUIDs looked for *)
LocBuffers ==
    {[i \in 1..n |-> IF i \in S THEN 170 ELSE 0] :
       n \in 16..18, S \in {{}, 1..18, {1}, {17}, 1..16, 2..17, {3, 18}}}

LocGuids ==
    {GuidText([i \in 1..16 |-> 170], {}), GuidText([i \in 1..16 |-> 0], {}),
     GuidText([i \in 1..16 |-> IF i = 1 THEN 171 ELSE 0], 1..32)}

(* array records given to getNestedValue, and the path segments         *)
ArrayRoots ==
    {[heap |-> <<ArraySingleObjectRecord(3, 2, <<Obj(2), Null>>),
                 BinaryObjectStringRecord(5, <<104>>)>>,
      root |-> Obj(1)],
     [heap |-> <<ArraySinglePrimitiveRecord(3, 2, PT_Int32, <<Num(7), Num(0)>>)>>,
      root |-> Obj(1)]}

Segments == {<<>>, <<32>>, <<48>>, <<49>>, <<50>>, <<45, 49>>, <<120>>, <<49, 120>>}

UCall(op, arg, ret) == [op |-> op, arg |-> arg, ret |-> ret]

(* ------------------------------------------------------------------ *)
(* The library functions called on their own.  pc is the position of    *)
(* the caller, call the function called last with its argument and      *)
(* result, input and output the buffers given and returned, decoder     *)
(* the reader (and the heap of a record that was built), encoder the    *)
(* writer.                                                              *)
UtilInit ==
    /\ input = <<>>
    /\ fed = 0
    /\ pc = "util"
    /\ decoder = NewDecoder(<<>>)
    /\ root = Undefined
    /\ encoder = NewEncoder
    /\ output = <<>>
    /\ call = UCall("none", Undefined, Undefined)
    /\ gen = 0

(* output = new NrbfEncoder().encode(root, rootId)                      *)
EncodeGraph ==
    /\ pc = "util"
    /\ \E g \in EncodeRoots, rootId \in RootIdArgs :
         /\ decoder' = [decoder EXCEPT !.heap = g.heap]
         /\ root' = g.root
         /\ call' = UCall("encode", rootId, Undefined)
         /\ \E e \in {encode(NewEncoder, g.heap, g.root, rootId)} :
              /\ encoder' = e
              /\ output' = IF e.ok THEN e.ret ELSE <<>>
              /\ pc' = IF e.ok THEN "encoded" ELSE "encodeFailed"
    /\ UNCHANGED <<input, fed, gen>>

(* NrbfUtils.startsWithPayloadHeader(output)                            *)
SniffHeader ==
    /\ pc = "encoded"
    /\ call' = UCall("startsWithPayloadHeader", call.arg, startsWithPayloadHeader(output))
    /\ pc' = "sniffed"
    /\ UNCHANGED <<input, fed, decoder, root, encoder, output, gen>>

(* record = NrbfUtils.createGuidRecord(objectId, guidString)            *)
CreateGuid ==
    /\ pc = "util"
    /\ \E objectId \in GuidObjectIds, guidString \in GuidStrings :
         /\ decoder' = [decoder EXCEPT !.heap = createGuidRecord(objectId, guidString)]
         /\ call' = UCall("createGuidRecord", guidString, objectId)
    /\ root' = Obj(1)
    /\ pc' = "guid"
    /\ UNCHANGED <<input, fed, encoder, output, gen>>

(* NrbfUtils.parseGuid(record)                                          *)
ParseGuid ==
    /\ pc = "guid"
    /\ call' = UCall("parseGuid", call.arg, parseGuid(decoder.heap, root.v))
    /\ pc' = "parsed"
    /\ UNCHANGED <<input, fed, decoder, root, encoder, output, gen>>

(* writer.writeVariableLengthInt(n); output = writer.toBuffer()         *)
WriteVarInt ==
    /\ pc = "util"
    /\ \E n \in VarIntSamples :
         /\ encoder' = writeVariableLengthInt(NewEncoder, n)
         /\ output' = writeVariableLengthInt(NewEncoder, n).out
         /\ call' = UCall("writeVariableLengthInt", n, Undefined)
    /\ pc' = "varint"
    /\ UNCHANGED <<input, fed, decoder, root, gen>>

(* bytes that some other writer made                                    *)
TakeBytes ==
    /\ pc = "util"
    /\ \E bytes \in VarIntEncodings :
         /\ output' = bytes
         /\ call' = UCall("bytes", bytes, Undefined)
    /\ pc' = "varint"
    /\ UNCHANGED <<input, fed, decoder, root, encoder, gen>>

(* new BinaryReader(output).readVariableLengthInt()                     *)
ReadVarInt ==
    /\ pc = "varint"
    /\ decoder' = readVariableLengthInt(NewDecoder(output))
    /\ pc' = "varintRead"
    /\ UNCHANGED <<input, fed, root, encoder, output, call, gen>>

(* new BinaryReader(output).readLengthPrefixedString()                  *)
ReadString ==
    /\ pc = "varint"
    /\ call.op = "bytes"
    /\ decoder' = readLengthPrefixedString(NewDecoder(output))
    /\ pc' = "stringRead"
    /\ UNCHANGED <<input, fed, root, encoder, output, call, gen>>

(* output = NrbfUtils.replaceGuidAtOffset(input, offset, guidString)    *)
ReplaceGuid ==
    /\ pc = "util"
    /\ \E buffer \in LocBuffers, guidString \in LocGuids :
         \E offset \in 0..(Len(buffer) - GuidByteCount) :
            /\ input' = buffer
            /\ output' = replaceGuidAtOffset(buffer, offset, guidString)
            /\ call' = UCall("replaceGuidAtOffset", <<offset, guidString>>, Undefined)
    /\ pc' = "replaced"
    /\ UNCHANGED <<fed, decoder, root, encoder, gen>>

(* NrbfUtils.findGuidInBinary(output, guidString)                       *)
FindGuid ==
    /\ pc = "replaced"
    /\ call' = UCall("findGuidInBinary", call.arg, findGuidInBinary(output, call.arg[2]))
    /\ pc' = "found"
    /\ UNCHANGED <<input, fed, decoder, root, encoder, output, gen>>

(* a second encoder.encode(root, rootId) on the encoder that returned   *)
(* output; input keeps the buffer of the first call                     *)
EncodeAgain ==
    /\ pc = "encoded"
    /\ \E e \in {encode(encoder, decoder.heap, root, call.arg)} :
         /\ encoder' = e
         /\ output' = IF e.ok THEN e.ret ELSE <<>>
    /\ input' = output
    /\ call' = UCall("encodeAgain", call.arg, Undefined)
    /\ pc' = "encodedAgain"
    /\ UNCHANGED <<fed, decoder, root, gen>>

(* NrbfUtils.getNestedValue(array, part) on an array record              *)
GetElement ==
    /\ pc = "util"
    /\ \E g \in ArrayRoots, part \in Segments :
         /\ decoder' = [decoder EXCEPT !.heap = g.heap]
         /\ root' = g.root
         /\ call' = UCall("getNestedValue", part,
                          getNestedValue(g.heap, g.root, part, FALSE, decoder))
    /\ pc' = "element"
    /\ UNCHANGED <<input, fed, encoder, output, gen>>

UtilNext ==
    \/ EncodeGraph \/ SniffHeader \/ CreateGuid \/ ParseGuid \/ WriteVarInt \/ TakeBytes
    \/ ReadVarInt \/ ReadString \/ ReplaceGuid \/ FindGuid \/ EncodeAgain \/ GetElement

UtilSpec == UtilInit /\ [][UtilNext]_vars

(* ------------------------------------------------------------------ *)
(* The claims.                                                          *)

(* the buffer decode was given, before any buffer was read back         *)
FirstPass == gen = 0

(* C1: every stream decode accepts is returned byte for byte by a       *)
(* fresh encoder given the decoded root: the encoder does not throw,    *)
(* and the buffer it returns equals the stream.                         *)
C1_RoundTripExact ==
    FirstPass /\ call.op = "none" =>
      /\ pc # "encodeFailed"
      /\ (pc = "encoded" => output = input)

(* the input is a buffer that encode returned                           *)
ReadBack == gen = 1

(* C2: every buffer the encoder returned is accepted by decode, and a   *)
(* fresh encoder given the decoded root returns that same buffer.       *)
C2_EncoderOutputStable ==
    ReadBack =>
      /\ pc # "failed"
      /\ pc # "encodeFailed"
      /\ (pc = "encoded" => output = input)

(* a number was stored by setValue in a member declared Primitive Int32 *)
Int32SlotSet ==
    /\ call.op = "setValue"
    /\ ~call.threw
    /\ call.slot = [binaryType |-> BT_Primitive, info |-> InfoPrimitive(PT_Int32),
                    typed |-> TRUE]
    /\ call.value.t = "num"

(* C3: after setValue stored a value valid for the member's slot (a     *)
(* number in an Int32 member), encode of the root returns a buffer,     *)
(* decode accepts that buffer, and getNestedValue at the same path on   *)
(* the new root returns the value.                                      *)
C3_SetPathReadBack ==
    Int32SlotSet =>
      /\ (FirstPass => pc # "encodeFailed")
      /\ (ReadBack => pc # "failed")
      /\ (ReadBack /\ pc = "decoded" =>
            getNestedValue(decoder.heap, root, call.path, TRUE, decoder) = call.value)

(* the first record of the stream is an array (ArraySingleObject,       *)
(* ArraySingleString or BinaryArray) and the first element read for it  *)
(* is a null-run record (ObjectNullMultiple256 or ObjectNullMultiple)   *)
NullRunLeadsFirstArray ==
    /\ Len(decoder.trace) >= 3
    /\ decoder.trace[2].ev = "read"
    /\ decoder.trace[2].id \in {RT_ArraySingleObject, RT_ArraySingleString, RT_BinaryArray}
    /\ decoder.trace[3].ev = "read"
    /\ decoder.trace[3].id \in {RT_ObjectNullMultiple256, RT_ObjectNullMultiple}

(* the number of elements an array record declares                      *)
DeclaredCount(node) == IF node.k = "barray" THEN Product(node.lengths) ELSE node.length

(* the bytes of the null-run record read at offset x: tag and count, a  *)
(* byte for ObjectNullMultiple256 and an Int32 for ObjectNullMultiple   *)
NullRunLength(tag) == IF tag = RT_ObjectNullMultiple256 THEN 2 ELSE 5

NullRunBytes(buf, x, tag) == SubSeq(buf, x + 1, x + NullRunLength(tag))

(* C4: an array whose elements begin with a null-run record is encoded  *)
(* again with that same record, of the same kind and count, at the same *)
(* position of the stream, and not with separate ObjectNull records.    *)
(* The array is the root, and the run fills it exactly.                 *)
C4_NullRunKept ==
    FirstPass /\ call.op = "none" /\ pc = "encoded" /\ root = Obj(1)
      /\ NullRunLeadsFirstArray
      /\ Len(decoder.heap[1].elementValues) = DeclaredCount(decoder.heap[1])
      /\ decoder.offset = Len(input) =>
        /\ Len(output) >= decoder.trace[3].x + NullRunLength(decoder.trace[3].id)
        /\ NullRunBytes(output, decoder.trace[3].x, decoder.trace[3].id)
             = NullRunBytes(input, decoder.trace[3].x, decoder.trace[3].id)

(* the positions of the trace where a record was put in the record      *)
(* table under the object id it carries                                 *)
Registrations(trace) == {i \in DOMAIN trace : trace[i].ev = "record"}

(* C5: decode returns no root when two records of the stream, at the    *)
(* top level or nested, carry the same object id: in a decode that      *)
(* succeeded no id was registered twice.                                *)
C5_DuplicateIdFatal ==
    pc = "decoded" =>
      \A i, j \in Registrations(decoder.trace) :
        decoder.trace[i].id = decoder.trace[j].id => i = j

(* the positions of the trace where decodeClassWithId looked its        *)
(* metadataId up in the metadata table                                  *)
Lookups(trace) == {i \in DOMAIN trace : trace[i].ev = "lookup"}

(* a record tag of a full class record (kinds 2, 3, 4 and 5)            *)
IsFullClassTag(tag) ==
    tag \in {RT_SystemClassWithMembers, RT_ClassWithMembers,
             RT_SystemClassWithMembersAndTypes, RT_ClassWithMembersAndTypes}

(* the object id in the four bytes after the record tag at offset x     *)
ObjectIdAt(buf, x) == ToInt32(SubSeq(buf, x + 2, x + 5))

(* a full class record carrying the object id was read from the stream  *)
(* before position i of the trace                                       *)
FullClassReadBefore(buf, trace, i, id) ==
    \E j \in 1..(i - 1) :
      /\ trace[j].ev = "read"
      /\ IsFullClassTag(trace[j].id)
      /\ Len(buf) >= trace[j].x + 5
      /\ ObjectIdAt(buf, trace[j].x) = id

(* C6: a ClassWithId record is decoded only when its metadataId is the  *)
(* object id of a full class record (kind 2, 3, 4 or 5) read earlier in *)
(* the stream, and decode fails otherwise; the object id of an earlier  *)
(* ClassWithId record does not count.                                   *)
C6_MetadataOfFullClassOnly ==
    pc \in {"decoded", "failed"} =>
      \A i \in Lookups(decoder.trace) :
        /\ decoder.trace[i].x = 1
             <=> FullClassReadBefore(decoder.buf, decoder.trace, i, decoder.trace[i].id)
        /\ decoder.trace[i].x = 0 => pc = "failed" /\ i = Len(decoder.trace)

(* a ClassWithId record was decoded with the metadata of a full class,  *)
(* and a later ClassWithId record that named the object id of the first *)
(* as its metadataId made decode fail                                   *)
C6_Witness ==
    /\ pc = "failed"
    /\ \E i, j \in Lookups(decoder.trace) :
         /\ i < j
         /\ decoder.trace[i].x = 1
         /\ decoder.trace[i + 1].ev = "record"
         /\ decoder.trace[j].x = 0
         /\ decoder.trace[j].id = decoder.trace[i + 1].id

(* the rootId field of the header at the start of the buffer            *)
HeaderRootId(buf) == ToInt32(SubSeq(buf, 2, 5))

(* the main loop read MessageEnd as the last byte of the buffer, and    *)
(* the record table has no entry under the header's rootId              *)
EndReadWithoutRoot ==
    /\ decoder.trace # <<>>
    /\ decoder.trace[Len(decoder.trace)] = EvRead(RT_MessageEnd, Len(decoder.buf) - 1)
    /\ decoder.trace[Len(decoder.trace) - 1].ev = "top"
    /\ HeaderRootId(decoder.buf) \notin DOMAIN decoder.recordMap

(* C7: the record decode returns is the entry of the record table under *)
(* the header's rootId; when the table has no such entry once           *)
(* MessageEnd is read, decode returns no record.                        *)
C7_RootIsTableEntry ==
    /\ pc = "decoded" =>
         /\ HeaderRootId(decoder.buf) \in DOMAIN decoder.recordMap
         /\ root = Obj(decoder.recordMap[HeaderRootId(decoder.buf)])
    /\ (pc \in {"decoded", "failed"} /\ EndReadWithoutRoot) => pc = "failed"

(* decode returned the root of a stream that registered two records     *)
(* under different object ids, the root being the second of them        *)
C7_Witness ==
    /\ pc = "decoded"
    /\ Cardinality(DOMAIN decoder.recordMap) = 2
    /\ root = Obj(2)
    /\ NodeObjectId(decoder.heap[2]) = HeaderRootId(decoder.buf)

(* C8: after a decode that succeeded every array record holds as many   *)
(* elements as it declares: the product of its lengths for a            *)
(* BinaryArray and its length for the single-dimension arrays, whatever *)
(* the counts of the null-run records among its elements.               *)
C8_ElementCountDeclared ==
    pc = "decoded" =>
      \A a \in DOMAIN decoder.heap :
        IsArrayNode(decoder.heap[a]) =>
          Len(decoder.heap[a].elementValues) = DeclaredCount(decoder.heap[a])

(* the positions of the trace where a MessageEnd tag was read           *)
EndReads(trace) ==
    {i \in DOMAIN trace : trace[i].ev = "read" /\ trace[i].id = RT_MessageEnd}

(* C9: in a decode that succeeded one MessageEnd was read, by the main  *)
(* loop and as the last record read, and it is the last byte of the     *)
(* stream: no MessageEnd was taken as a member value or an array        *)
(* element, and nothing follows the one that ended the stream.          *)
C9_SingleFinalMessageEnd ==
    pc = "decoded" =>
      /\ Cardinality(EndReads(decoder.trace)) = 1
      /\ decoder.trace[Len(decoder.trace)].ev = "read"
      /\ decoder.trace[Len(decoder.trace)].id = RT_MessageEnd
      /\ decoder.trace[Len(decoder.trace) - 1].ev = "top"
      /\ decoder.offset = Len(decoder.buf)

(* the step is a call of setValue on the record at call'.target         *)
IsSetValueStep == call.op = "none" /\ call'.op = "setValue"

(* every member of every record but the one named keeps its value, and  *)
(* no record is added, removed or otherwise changed                     *)
OtherMembersKept(before, after, addr, memberName) ==
    /\ DOMAIN after = DOMAIN before
    /\ \A b \in DOMAIN before :
         /\ b # addr => after[b] = before[b]
         /\ b = addr =>
              /\ [after[b] EXCEPT !.memberValues = <<>>]
                   = [before[b] EXCEPT !.memberValues = <<>>]
              /\ DOMAIN before[b].memberValues \subseteq DOMAIN after[b].memberValues
              /\ DOMAIN after[b].memberValues
                   \subseteq DOMAIN before[b].memberValues \cup {memberName}
              /\ \A n \in DOMAIN before[b].memberValues :
                   n # memberName => after[b].memberValues[n] = before[b].memberValues[n]

(* C10: setValue(name, value) throws exactly when name is not one of    *)
(* the record's memberNames, and then changes nothing; otherwise it     *)
(* succeeds whatever the value and the member's declared type, getValue *)
(* then returns the value, and all other members keep their values.     *)
C10_SetValueChecksNameOnly ==
    [][IsSetValueStep =>
         /\ call'.threw
              <=> ~Includes(decoder.heap[call'.target].classInfo.memberNames, call'.field)
         /\ call'.threw => decoder'.heap = decoder.heap
         /\ ~call'.threw =>
              /\ getValue(decoder'.heap, call'.target, call'.field) = call'.value
              /\ OtherMembersKept(decoder.heap, decoder'.heap, call'.target, call'.field)]_vars

(* setValue stored a string in a member declared Primitive Int32        *)
C10_Witness ==
    /\ call.op = "setValue"
    /\ ~call.threw
    /\ call.slot.typed
    /\ call.slot.info = InfoPrimitive(PT_Int32)
    /\ call.value.t = "str"
    /\ FirstPass
    /\ getValue(decoder.heap, call.target, call.field) = call.value

(* the last record tag decodeNext read                                  *)
LastReadTag(trace) ==
    IF \E i \in 1..Len(trace) : trace[i].ev = "read"
      THEN trace[CHOOSE i \in 1..Len(trace) :
                   /\ trace[i].ev = "read"
                   /\ \A j \in (i + 1)..Len(trace) : trace[j].ev # "read"].id
      ELSE -1

(* C11: decoding a MemberReference never fails for want of its target:  *)
(* a decode that stops at a MemberReference stops because the buffer    *)
(* ended, the stream of a class whose member refers to an absent record *)
(* is accepted, and resolveReference on a reference of the decoded      *)
(* graph throws exactly when the record table has no entry under its    *)
(* idRef and returns that entry otherwise.                              *)
C11_ReferenceCheckedOnlyOnResolve ==
    /\ pc = "failed" => decoder.err # "Cannot resolve reference"
    /\ (pc = "failed" /\ LastReadTag(decoder.trace) = RT_MemberReference)
         => decoder.err = "RangeError"
    /\ (pc # "input" /\ input = Header(1) \o FragReferringClass(1, 2) \o FragEnd)
         => pc # "failed"
    /\ call.op = "resolveReference" =>
         /\ call.threw <=> ~MapHas(decoder.recordMap, call.value.v)
         /\ ~call.threw => call.target = decoder.recordMap[call.value.v]

(* a stream with a reference to an absent record was decoded, and the   *)
(* consumer's resolveReference threw                                    *)
C11_Witness ==
    /\ pc = "queried"
    /\ call.op = "resolveReference"
    /\ call.threw
    /\ input = Header(1) \o FragReferringClass(1, 2) \o FragEnd

(* the value the root's member m holds, unresolved                      *)
RootMember ==
    IF root.t = "obj" /\ decoder.heap[root.v].k = "class"
      THEN getValue(decoder.heap, root.v, NameM)
      ELSE Undefined

IsDangling(v) == v.t = "ref" /\ ~MapHas(decoder.recordMap, v.v)

(* C12: a dotted-path lookup that comes to a MemberReference whose      *)
(* idRef is not in the record table fails with an error, and does not   *)
(* return the result of a missing member.                               *)
C12_UnresolvedReferenceFails ==
    (call.op = "getNestedValue" /\ call.path # NameQ /\ IsDangling(RootMember))
      => \/ call.threw
         \/ call.value # getNestedValue(decoder.heap, root, NameQ, TRUE, decoder)

(* the record a value leads to: the target of a reference, or the value *)
Target(v) == IF v.t = "ref" THEN getRecord(decoder, v.v) ELSE v

(* the value the member m of the class record v holds, unresolved       *)
MemberM(v) ==
    IF v.t = "obj" /\ decoder.heap[v.v].k = "class"
      THEN getValue(decoder.heap, v.v, NameM)
      ELSE Undefined

(* the slot the last segment of call.path names, for the paths m and m.m *)
LastSlot ==
    CASE call.path = NameM -> RootMember
      [] call.path = NameM \o <<Dot>> \o NameM -> MemberM(Target(RootMember))
      [] OTHER -> Undefined

(* C13: when the slot named by the last segment of the path holds       *)
(* MemberReference(k) and record k is in the record table, registered    *)
(* before or after the reference was read, getNestedValue with the      *)
(* decoder returns the table's entry under k itself and not the         *)
(* reference: the root itself when k is the root's id.                  *)
C13_FinalReferenceResolved ==
    (call.op = "getNestedValue" /\ LastSlot.t = "ref"
       /\ MapHas(decoder.recordMap, LastSlot.v))
      => /\ call.value = Obj(decoder.recordMap[LastSlot.v])
         /\ LastSlot.v = HeaderRootId(input) => call.value = root

(* the index of the first event of the trace of the given kind and id   *)
FirstEvent(trace, ev, id) ==
    CHOOSE i \in 1..Len(trace) :
      /\ trace[i].ev = ev /\ trace[i].id = id
      /\ \A j \in 1..(i - 1) : ~(trace[j].ev = ev /\ trace[j].id = id)

(* a forward reference: the root's member m refers to record 2, which   *)
(* was registered after the reference was read; the lookup of m gave    *)
(* that record                                                          *)
C13_Witness ==
    /\ call.op = "getNestedValue"
    /\ call.path = NameM
    /\ RootMember = MemberReferenceRecord(2)
    /\ MapHas(decoder.recordMap, 2)
    /\ FirstEvent(decoder.trace, "read", RT_MemberReference)
         < FirstEvent(decoder.trace, "record", 2)
    /\ call.value = Obj(decoder.recordMap[2])
    /\ decoder.heap[call.value.v].k = "string"

(* a cycle: two steps from the root lead back to the root               *)
C13_WitnessCycle ==
    /\ call.op = "getNestedValue"
    /\ call.path = NameM \o <<Dot>> \o NameM
    /\ RootMember.t = "obj"
    /\ call.value = root

(* a class record with the one member m                                 *)
HasOnlyMemberM(v) ==
    /\ v.t = "obj"
    /\ decoder.heap[v.v].k = "class"
    /\ decoder.heap[v.v].classInfo.memberNames = <<NameM>>

(* the graph below the root has a cycle: the root A refers to itself,   *)
(* or A holds B (inline or by reference) and B refers back to A         *)
CycleGraph ==
    /\ HasOnlyMemberM(root)
    /\ NodeObjectId(decoder.heap[root.v]) \in DOMAIN decoder.recordMap
    /\ decoder.recordMap[NodeObjectId(decoder.heap[root.v])] = root.v
    /\ \/ RootMember = MemberReferenceRecord(NodeObjectId(decoder.heap[root.v]))
       \/ /\ HasOnlyMemberM(Target(RootMember))
          /\ Target(RootMember) # root
          /\ MemberM(Target(RootMember))
               = MemberReferenceRecord(NodeObjectId(decoder.heap[root.v]))

(* the last reference encode comes to on its way through the cycle      *)
LastReference ==
    IF RootMember.t = "ref" THEN RootMember ELSE MemberM(RootMember)

(* the last n bytes of a buffer                                         *)
LastBytes(buf, n) == SubSeq(buf, Len(buf) - n + 1, Len(buf))

C15_EncodedHeaderSniffed ==
    pc = "sniffed" =>
      /\ call.ret = TRUE
      /\ Len(output) >= 17
      /\ output[1] = 0
      /\ SubSeq(output, 10, 17) = <<1, 0, 0, 0, 0, 0, 0, 0>>

(* a buffer encoded with a negative rootId was sniffed                  *)
C15_Witness ==
    /\ pc = "sniffed"
    /\ call.op = "startsWithPayloadHeader"
    /\ call.arg = Num(-2)
    /\ call.ret = TRUE
    /\ SubSeq(output, 2, 5) = <<254, 255, 255, 255>>

(* C16: parseGuid(createGuidRecord(id, s)) is s in lower case for every *)
(* well-formed GUID string s, in any letter case, also when the fields  *)
(* _a, _b and _c are negative.                                          *)
C16_GuidRoundTrip ==
    pc = "parsed" => call.ret = ToLowerCase(call.arg)

(* a GUID in upper case whose fields _a, _b and _c are negative was     *)
(* built and parsed                                                     *)
C16_Witness ==
    /\ pc = "parsed"
    /\ call.arg # ToLowerCase(call.arg)
    /\ getValue(decoder.heap, 1, GuidMemberNames[1]).v < 0
    /\ getValue(decoder.heap, 1, GuidMemberNames[2]).v < 0
    /\ getValue(decoder.heap, 1, GuidMemberNames[3]).v < 0
    /\ call.ret = ToLowerCase(call.arg)

(* C17: for n in 0..2^31-1, writeVariableLengthInt(n) writes 1 to 5     *)
(* bytes, and readVariableLengthInt on them returns n and consumes      *)
(* exactly those bytes.                                                 *)
C17_VarIntRoundTrip ==
    /\ (pc = "varint" /\ call.op = "writeVariableLengthInt")
         => Len(output) \in 1..5
    /\ (pc = "varintRead" /\ call.op = "writeVariableLengthInt") =>
         /\ decoder.ok
         /\ decoder.ret = call.arg
         /\ decoder.offset = Len(output)

(* 2^31-1 was written in five bytes and read back                       *)
C17_Witness ==
    /\ pc = "varintRead"
    /\ call.op = "writeVariableLengthInt"
    /\ call.arg = 2147483647
    /\ output = <<255, 255, 255, 255, 7>>
    /\ decoder.ret = 2147483647

(* the buffer starts with four bytes that have the continuation bit     *)
FiveByteForm == Len(output) >= 5 /\ \A i \in 1..4 : output[i] >= 128

(* C18: readVariableLengthInt reads at most 5 bytes and returns an      *)
(* integer in 0..2^31-1 or fails: five bytes with the continuation bit  *)
(* fail, and a fifth byte with bit 3 or a higher bit set is not         *)
(* accepted, neither by readVariableLengthInt nor as the length of a    *)
(* string.                                                              *)
C18_VarIntInRange ==
    (pc \in {"varintRead", "stringRead"} /\ call.op = "bytes") =>
      /\ pc = "varintRead" => decoder.offset <= 5
      /\ (pc = "varintRead" /\ decoder.ok) => decoder.ret >= 0
      /\ (FiveByteForm /\ output[5] >= 128) => ~decoder.ok
      /\ (FiveByteForm /\ decoder.ok) => output[5] < 8

(* the rootId encode is to write: the argument, else the root's         *)
(* objectId, else 1                                                     *)
ExpectedRootId ==
    IF call.arg.t = "num" THEN call.arg.v
    ELSE IF root.t = "obj" THEN NodeObjectId(decoder.heap[root.v])
    ELSE IF root.t = "lib" THEN root.v[1]
    ELSE 1

(* C19: a buffer encode returns starts with byte 0, the rootId, -1, 1   *)
(* and 0 as little-endian Int32, and ends with byte 11; the rootId is   *)
(* the argument when given, else the root's objectId when it has one,   *)
(* else 1.                                                              *)
C19_HeaderAndTrailer ==
    pc \in {"encoded", "sniffed"} =>
      /\ Len(output) >= 18
      /\ SubSeq(output, 1, 17)
           = <<0>> \o Int32Bytes(ExpectedRootId) \o <<255, 255, 255, 255>>
               \o <<1, 0, 0, 0>> \o <<0, 0, 0, 0>>
      /\ output[Len(output)] = 11

(* encode was given the rootId 0 for a root whose objectId is 5         *)
C19_Witness ==
    /\ pc = "encoded"
    /\ call.arg = Num(0)
    /\ root.t = "obj"
    /\ NodeObjectId(decoder.heap[root.v]) = 5
    /\ SubSeq(output, 2, 5) = <<0, 0, 0, 0>>

(* the offsets at which the 16 bytes of the GUID occur in the buffer    *)
OccurrencesOf(buffer, guidString) ==
    {i \in 0..(Len(buffer) - GuidByteCount) :
       SubSeq(buffer, i + 1, i + GuidByteCount) = GuidBytes(guidString)}

(* C20: replaceGuidAtOffset(b, o, g) with o + 16 <= length(b) returns a *)
(* buffer of the length of b that equals b outside [o, o+16), and       *)
(* findGuidInBinary of it for g returns in ascending order exactly the  *)
(* offsets where the 16 bytes of g occur, o among them.                 *)
C20_ReplaceThenFind ==
    /\ pc \in {"replaced", "found"} =>
         /\ Len(output) = Len(input)
         /\ \A j \in 1..Len(input) :
              (j <= call.arg[1] \/ j > call.arg[1] + GuidByteCount) => output[j] = input[j]
    /\ pc = "found" =>
         /\ \A i \in 1..(Len(call.ret) - 1) : call.ret[i] < call.ret[i + 1]
         /\ {call.ret[i] : i \in 1..Len(call.ret)} = OccurrencesOf(output, call.arg[2])
         /\ \E i \in 1..Len(call.ret) : call.ret[i] = call.arg[1]

(* the GUID was written into a buffer that then holds it at three       *)
(* offsets                                                              *)
C20_Witness ==
    /\ pc = "found"
    /\ output # input
    /\ Len(call.ret) = 3
    /\ call.arg[1] = 1

(* no object id is put in the record table twice by the decode that     *)
(* left this trace                                                      *)
DistinctIds(trace) ==
    \A i, j \in Registrations(trace) : trace[i].id = trace[j].id => i = j

(* C21: within one encode call a record whose objectId is in            *)
(* writtenRecords emits no bytes, and no objectId, 0 included, is       *)
(* carried by two records of the buffer encode returns.                 *)
C21_NoIdWrittenTwice ==
    pc = "encoded" =>
      /\ \A a \in DOMAIN decoder.heap :
           NodeObjectId(decoder.heap[a]) \in encoder.writtenRecords
             => encodeRecord(encoder, decoder.heap, Obj(a)) = encoder
      /\ DistinctIds(decode(NewDecoder(output)).trace)

(* the root is a ClassRecord that was decoded from a ClassWithId record *)
RootIsClassWithId ==
    /\ root.t = "obj"
    /\ decoder.heap[root.v].k = "class"
    /\ decoder.heap[root.v].recordTypeValue = RT_ClassWithId

(* C22: a ClassRecord decoded from a ClassWithId record is written in   *)
(* its short form, lead byte 1, objectId and the metadataId of a full   *)
(* class record, and not with a ClassInfo.                              *)
C22_ClassWithIdShortForm ==
    (pc = "encoded" /\ RootIsClassWithId) =>
      \E metadataId \in DOMAIN decoder.metadataMap :
        SubSeq(output, 18, 26)
          = FragClassWithId(NodeObjectId(decoder.heap[root.v]), metadataId)

(* the root is a class record with memberTypeInfo whose one member is   *)
(* declared Primitive Int32 and holds a number or a boolean              *)
TypedRootHoldsPrimitive ==
    /\ root.t = "obj"
    /\ decoder.heap[root.v].k = "class"
    /\ decoder.heap[root.v].classInfo.memberNames = <<NameX>>
    /\ MemberSlot(decoder.heap[root.v], NameX)
         = [binaryType |-> BT_Primitive, info |-> InfoPrimitive(PT_Int32), typed |-> TRUE]
    /\ getValue(decoder.heap, root.v, NameX).t \in {"num", "bool"}

(* C23: encode of a class record with memberTypeInfo succeeds and       *)
(* writes a member that holds an inline primitive with the width and    *)
(* layout of the member's PrimitiveType: the four bytes of an Int32     *)
(* for a member declared Int32.                                         *)
C23_TypedMemberWritten ==
    (pc \in {"encoded", "encodeFailed"} /\ TypedRootHoldsPrimitive) =>
      /\ pc = "encoded"
      /\ LastBytes(output, 5)
           = writePrimitiveValue(NewEncoder, getValue(decoder.heap, root.v, NameX),
                                 PT_Int32).out \o FragEnd

(* C24: after decode failed, getRecord and getAllRecords of the decoder *)
(* return no record that was put in the record table before the         *)
(* failing read.                                                        *)
C24_NoPartialGraphOnFailure ==
    pc = "failed" =>
      /\ DOMAIN decoder.recordMap = {}
      /\ \A i \in Registrations(decoder.trace) :
           getRecord(decoder, decoder.trace[i].id) = Undefined

(* the positions of the trace where a class record starts to read its   *)
(* member values                                                        *)
MemberReads(trace) == {i \in DOMAIN trace : trace[i].ev = "values"}

(* what a lookup of the object id in the record table returns after     *)
(* the first j events of the trace: the address registered last         *)
LookupAt(trace, j, id) ==
    LET regs == {r \in Registrations(trace) : r <= j /\ trace[r].id = id}
    IN IF regs = {} THEN 0 ELSE trace[CHOOSE r \in regs : \A s \in regs : s <= r].x

(* the record at the address is a member value of the class record      *)
IsMemberOf(heap, addr, parent) ==
    \E m \in DOMAIN heap[parent].memberValues : heap[parent].memberValues[m] = Obj(addr)

(* C25: a class record with objectId k is in the record table under k   *)
(* before its first member value is read, and while its members are     *)
(* decoded a lookup of k returns it: also at the moment one of its      *)
(* member records is registered.                                        *)
C25_RegisteredWhileMembersRead ==
    pc \in {"decoded", "failed"} =>
      \A i \in MemberReads(decoder.trace) :
        /\ i > 1
        /\ decoder.trace[i - 1] = EvRecordSet(decoder.trace[i].id, decoder.trace[i].x)
        /\ \A j \in Registrations(decoder.trace) :
             (j > i /\ IsMemberOf(decoder.heap, decoder.trace[j].x, decoder.trace[i].x))
               => LookupAt(decoder.trace, j, decoder.trace[i].id) = decoder.trace[i].x

(* the record kinds that carry an object id                             *)
IdBearingTags ==
    {RT_ClassWithId, RT_SystemClassWithMembers, RT_ClassWithMembers,
     RT_SystemClassWithMembersAndTypes, RT_ClassWithMembersAndTypes,
     RT_BinaryObjectString, RT_BinaryArray, RT_BinaryLibrary, RT_ArraySinglePrimitive,
     RT_ArraySingleObject, RT_ArraySingleString}

(* the positions of the trace where the tag of such a record was read   *)
IdBearingReads(trace) ==
    {i \in DOMAIN trace : trace[i].ev = "read" /\ trace[i].id \in IdBearingTags}

IsNonNegativeInteger(s) == s # <<>> /\ \A i \in 1..Len(s) : IsDigit(s[i])

(* elements[n] as getNestedValue returns it: not found for a null or    *)
(* missing element                                                      *)
ElementOrNotFound(elementValues, n) ==
    IF n < Len(elementValues) /\ elementValues[n + 1] # Null
      THEN elementValues[n + 1] ELSE Undefined

(* C27: on an array record getNestedValue advances to elements[i] only  *)
(* for a segment that is a non-negative integer i; every other segment  *)
(* (empty, blank, negative, not a number) gives undefined.              *)
C27_ArrayIndexOnly ==
    pc = "element" =>
      call.ret = IF IsNonNegativeInteger(call.arg)
                   THEN ElementOrNotFound(decoder.heap[root.v].elementValues,
                                          DigitsValue(call.arg, 0))
                   ELSE Undefined

(* C28: a second encode(root) on the same NrbfEncoder returns the bytes *)
(* of the first call, which are the bytes a fresh encoder returns.      *)
C28_EncodeRepeatable ==
    pc = "encodedAgain" =>
      /\ encoder.ok
      /\ output = input
      /\ output = encode(NewEncoder, decoder.heap, root, call.arg).ret

(* C29: when encode of a decoded root returned a buffer, a              *)
(* MemberReference held by the root whose idRef is in the record table  *)
(* of the decode is also in the record table of the decode of that      *)
(* buffer: the record it refers to was written.                         *)
C29_ReferenceTargetsWritten ==
    (pc = "encoded" /\ gen = 0 /\ RootMember.t = "ref"
       /\ getRecord(decoder, RootMember.v) # Undefined) =>
      getRecord(decode(NewDecoder(output)), RootMember.v) # Undefined

(* the positions of the trace where decodeNext read a record tag, and   *)
(* those where the main loop started a record                           *)
TagReads(trace) == {i \in DOMAIN trace : trace[i].ev = "read"}
TopStarts(trace) == {i \in DOMAIN trace : trace[i].ev = "top"}

(* the main loop read the tag of MessageEnd for the record it started   *)
(* at position t of the trace                                           *)
TopLevelEnd(trace, t) ==
    /\ t < Len(trace)
    /\ trace[t + 1] = EvRead(RT_MessageEnd, trace[t].x)

(* C30: decode on a finite buffer ends, with a root or with an error.   *)
(* Every record read takes at least its tag byte from the buffer, so    *)
(* the tags are read at strictly increasing offsets inside the buffer,  *)
(* also after a null run of count 0 or of a negative count among the    *)
(* elements of an array; the main loop starts no record after the       *)
(* first top-level MessageEnd and not more than 100000 + 1 records.     *)
C30_DecodeTerminates ==
    pc \in {"decoded", "failed"} =>
      /\ decoder.ok <=> pc = "decoded"
      /\ ~decoder.ok => decoder.err # ""
      /\ \A i, j \in TagReads(decoder.trace) :
           i < j => decoder.trace[i].x < decoder.trace[j].x
      /\ \A i \in TagReads(decoder.trace) : decoder.trace[i].x < Len(decoder.buf)
      /\ \A t \in TopStarts(decoder.trace) :
           TopLevelEnd(decoder.trace, t) => \A u \in TopStarts(decoder.trace) : u <= t
      /\ pc = "decoded" => \E t \in TopStarts(decoder.trace) : TopLevelEnd(decoder.trace, t)
      /\ Cardinality(TopStarts(decoder.trace)) <= MaxRecordCount + 1

(* decode ended on an array whose first element is a null run of count  *)
(* 0 or of a negative count: it read one more record as an element and  *)
(* failed at the end of the buffer                                      *)
C30_Witness ==
    /\ pc = "failed"
    /\ NullRunLeadsFirstArray
    /\ Cardinality(TagReads(decoder.trace)) = 3
    /\ decoder.offset > Len(decoder.buf)
    /\ decoder.err = "RangeError"
    /\ \/ decoder.trace[3].id = RT_ObjectNullMultiple256
            /\ decoder.buf[decoder.trace[3].x + 2] = 0
       \/ decoder.trace[3].id = RT_ObjectNullMultiple
            /\ ToInt32(SubSeq(decoder.buf, decoder.trace[3].x + 2, decoder.trace[3].x + 5)) < 0

====
